---- MODULE Spec2Model ----
(***************************************************************************)
(* Canon EDSDK camera module (src-tauri/src/canon.rs): the process-wide    *)
(* state, the Tauri command handlers as step machines run by concurrent    *)
(* host threads, and the native callbacks that run inside EdsGetEvent.     *)
(***************************************************************************)
EXTENDS Integers, Sequences, FiniteSets, TLC

\* ------------------------------------------------------------------ bounds
\* Host threads that dispatch commands concurrently.
Threads == {"t1", "t2"}
\* EdsGetEvent iterations of a wait loop before its timeout has elapsed.
MaxPumps == 2
\* Tasks the ShutdownManager has spawned and that have not ended.
MaxTasks == 2
\* Shutdown commands the host dispatches over the whole run.
MaxShutdownCalls == 3
\* Media items the camera hands to the host over the whole run (image ids).
MaxShots == 2
\* Shutter actuations whose transfer request the camera still owes.
MaxOwed == 2
\* Device handles EdsGetChildAtIndex hands out over the whole run.
MaxConnects == 2
\* Commands the host dispatches over the whole run.
MaxCalls == 6
\* Commands the host dispatches after the bring-up in the session workload.
MaxWork == 2

\* Native error codes (EdsError).
EDS_ERR_OK == 0
EDS_ERR_DEVICE_BUSY == 129
EDS_ERR_TAKE_PICTURE_AF_NG == 36097
\* 0x82, a code error_to_string has no entry for.
EDS_ERR_UNLISTED == EDS_ERR_DEVICE_BUSY + 1
\* What EdsSendCommand(TakePicture) answers.
TakePictureErrors ==
  {EDS_ERR_OK, EDS_ERR_DEVICE_BUSY, EDS_ERR_TAKE_PICTURE_AF_NG, EDS_ERR_UNLISTED}

NoThread == "none"
NoRef == 0
NoImage == 0
NoError == ""
NoPath == ""

\* -------------------------------------------------------------------- state
VARIABLES
  sdkInit,      \* SDK_INITIALIZED
  mgr,          \* CAMERA_MANAGER (exists = the OnceLock is set) and its CameraManager
  mgrLock,      \* owner of the CAMERA_MANAGER mutex
  cd,           \* CAPTURE_DATA (exists = the OnceLock is set)
  md,           \* MOVIE_DATA
  isCapturing,  \* IS_CAPTURING
  isRecording,  \* IS_MOVIE_RECORDING
  cam,          \* the device and the SDK's view of it
  pc,           \* per thread: position in the handler it runs
  cont,         \* per thread: where the caller continues after a nested call
  op,           \* per thread: the command it was dispatched for
  res,          \* what the step just taken returned to the host, and from
                \* which command
  loc,          \* per thread: the locals of the running handler
  hist,         \* delivered: image id -> results that carried it; calls: commands dispatched
  sm            \* the ShutdownManager of shutdown.rs, its tasks and the OS shutdown

gvars == <<sdkInit, mgr, mgrLock, cd, md, isCapturing, isRecording, cam>>
tvars == <<pc, cont, op, res, loc>>
vars == <<gvars, tvars, hist, sm>>

\* ---------------------------------------------------------------- results
\* CaptureResult {success, error, image_data}; `value` is the T of the
\* Result<T, String> the other commands return, and `generic` marks the Err a
\* command returns instead of a result.
CaptureResult(ok, err, img) ==
  [success |-> ok, error |-> err, image_data |-> img, value |-> "", generic |-> FALSE]
Fail(err) == CaptureResult(FALSE, err, NoImage)
OkVal(v) ==
  [success |-> TRUE, error |-> NoError, image_data |-> NoImage, value |-> v,
   generic |-> FALSE]
ErrVal(e) ==
  [success |-> FALSE, error |-> e, image_data |-> NoImage, value |-> "",
   generic |-> TRUE]
NoResult == ErrVal("no result")
NoReturn == [op |-> "", val |-> NoResult]

error_to_string(error) ==
  CASE error = EDS_ERR_OK -> "OK"
    [] error = EDS_ERR_DEVICE_BUSY -> "Device busy"
    [] error = EDS_ERR_TAKE_PICTURE_AF_NG -> "Auto-focus failed"
    [] OTHER -> "Unknown error"

CameraManagerDefault ==
  [exists |-> FALSE, camera_ref |-> NoRef, session_open |-> FALSE,
   event_handler_registered |-> FALSE, state_event_handler_registered |-> FALSE]
CaptureDataDefault ==
  [exists |-> FALSE, image_data |-> NoImage, capture_complete |-> FALSE,
   capture_error |-> NoError]
MovieDataDefault ==
  [exists |-> FALSE, movie_path |-> NoPath, download_complete |-> FALSE,
   download_error |-> NoError]
\* ref: camera_ref copied out of the manager; n: EdsGetEvent calls of the wait
\* loop; guard: a live CaptureGuard; tmp: the result held across the last steps;
\* native: the command made a native call; sawPop: the callback populated
\* CAPTURE_DATA since this call reset it; pressed: the call has sent
\* PressShutterButton(Completely_NonAF) and not yet PressShutterButton(OFF);
\* shot: that press succeeded, which the command remembers into its fallback.
LocalsDefault ==
  [ref |-> NoRef, n |-> 0, guard |-> FALSE, tmp |-> NoResult, native |-> FALSE,
   sawPop |-> FALSE, pressed |-> FALSE, shot |-> FALSE]
\* saveTo: the last kEdsPropID_SaveTo written; recording: the device records;
\* owed: shutter actuations not yet answered by a transfer request; owedMovie:
\* a movie file not yet announced; shots: images downloaded so far;
\* connects: handles handed out so far; down: the device has shut down;
\* loaded: EDSDK.dll is loaded (EDSDK_MODULE), which it stays once it is;
\* held: the handles obtained from EdsGetChildAtIndex and not yet released;
\* inits: the calls of EdsInitializeSDK that succeeded since the SDK was last
\* terminated (two stands for two or more); handlers: the handles not yet
\* released on which EdsSetObjectEventHandler has set object_event_handler;
\* movieSw: the last of MovieSelectSwON and MovieSelectSwOFF sent.
CameraDefault ==
  [saveTo |-> "unset", recording |-> FALSE, owed |-> 0, owedMovie |-> FALSE,
   shots |-> 0, connects |-> 0, down |-> FALSE, loaded |-> FALSE, held |-> {},
   inits |-> 0, handlers |-> {}, movieSw |-> "unset"]

\* ShutdownState::default()
ShutdownStateDefault ==
  [is_scheduled |-> FALSE, is_paused |-> FALSE, remaining_seconds |-> 0,
   total_seconds |-> 0, reason |-> "none"]
\* ShutdownManager::new(); tasks: what each spawned task is doing ("free": no
\* such task); executed: the OS shutdown command has been run.
ShutdownManagerNew ==
  [state |-> ShutdownStateDefault, is_in_transaction |-> FALSE,
   countdown_running |-> FALSE, tasks |-> [i \in 1..MaxTasks |-> "free"],
   executed |-> FALSE]

Init ==
  /\ sdkInit = FALSE
  /\ mgr = CameraManagerDefault
  /\ mgrLock = NoThread
  /\ cd = CaptureDataDefault
  /\ md = MovieDataDefault
  /\ isCapturing = FALSE
  /\ isRecording = FALSE
  /\ cam = CameraDefault
  /\ pc = [t \in Threads |-> "idle"]
  /\ cont = [t \in Threads |-> ""]
  /\ op = [t \in Threads |-> ""]
  /\ res = NoReturn
  /\ loc = [t \in Threads |-> LocalsDefault]
  /\ hist = [delivered |-> [i \in 1..MaxShots |-> 0], calls |-> 0]
  /\ sm = ShutdownManagerNew

\* ---------------------------------------------------------------- helpers
Set(f, t, v) == [f EXCEPT ![t] = v]
Min(a, b) == IF a < b THEN a ELSE b

\* Continue at p inside the same handler.
Jump(t, p) ==
  /\ pc' = Set(pc, t, p)
  /\ res' = NoReturn
  /\ UNCHANGED <<cont, op, hist, sm>>

\* Drop of the CaptureGuard when the function returns r (impl Drop).
\* A return that leaves IS_CAPTURING as it is.
KeepGuard(t, r) == isCapturing

\* A guard released on the success path only.
DropGuardOnSuccess(t, r) ==
  IF loc[t].guard /\ r.success THEN FALSE ELSE isCapturing

\* Drop of the CaptureGuard a call holds: IS_CAPTURING.store(false).
DropGuard(t, r) == IF loc[t].guard THEN FALSE ELSE isCapturing

\* Return r: to the command's caller, or into the handler that made the
\* nested call (which ignores the value: `let _ = ...`).
Return(t, r) ==
  /\ pc' = Set(pc, t, IF cont[t] = "" THEN "idle" ELSE cont[t])
  /\ res' = IF cont[t] = "" THEN [op |-> op[t], val |-> r] ELSE NoReturn
  /\ op' = IF cont[t] = "" THEN Set(op, t, "") ELSE op
  /\ cont' = Set(cont, t, "")
  /\ isCapturing' = DropGuard(t, r)
  /\ loc' = Set(loc, t, IF cont[t] = "" THEN LocalsDefault
                        ELSE [LocalsDefault EXCEPT !.native = loc[t].native])
  /\ hist' =
       IF cont[t] = "" /\ r.image_data # NoImage
       THEN [hist EXCEPT !.delivered[r.image_data] = Min(@ + 1, 2)]
       ELSE hist
  /\ UNCHANGED sm

\* Thread t calls a function of the SDK: the binding makes the native call if
\* the library is loaded, and returns an error code of its own if not.
Native(t) == [loc[t] EXCEPT !.native = @ \/ cam.loaded]

\* ------------------------------------------------- native callbacks
\* A notification: kind, whether the download it starts will succeed, and the
\* id of the media item it announces.
Event(k, ok, id) == [kind |-> k, ok |-> ok, id |-> id]

\* A callback that downloads a created item whether or not a recording is on.
ObjectEventHandlerAnyItem(s, e, rec) ==
  IF e.kind = "DirItemCreated" /\ s.md.exists
  THEN [s EXCEPT !.md = [exists |-> TRUE, movie_path |-> "movie",
                         download_complete |-> TRUE,
                         download_error |-> NoError]]
  ELSE s

\* A callback that leaves the record as it is when the download fails.
ObjectEventHandlerDropsFailure(s, e, rec) ==
  IF e.kind = "DirItemCreated" /\ rec
  THEN IF ~s.md.exists \/ ~e.ok THEN s
       ELSE [s EXCEPT !.md = [exists |-> TRUE, movie_path |-> "movie",
                              download_complete |-> TRUE,
                              download_error |-> NoError]]
  ELSE IF e.kind # "DirItemRequestTransfer" THEN s
  ELSE IF ~s.cd.exists \/ ~e.ok THEN s
  ELSE [s EXCEPT !.cd = [exists |-> TRUE, image_data |-> e.id,
                         capture_complete |-> TRUE,
                         capture_error |-> NoError]]

\* object_event_handler on s = [cd, md, mgr] with IS_MOVIE_RECORDING = rec.
ObjectEventHandler(s, e, rec) ==
  IF e.kind = "DirItemCreated" /\ rec
  THEN IF ~s.md.exists THEN s
       ELSE IF e.ok
            THEN [s EXCEPT !.md = [exists |-> TRUE, movie_path |-> "movie",
                                   download_complete |-> TRUE,
                                   download_error |-> NoError]]
            ELSE [s EXCEPT !.md.download_error = "Movie download failed",
                           !.md.download_complete = TRUE]
  ELSE IF e.kind # "DirItemRequestTransfer" THEN s
  ELSE IF ~s.cd.exists THEN s
  ELSE IF e.ok
       THEN [s EXCEPT !.cd = [exists |-> TRUE, image_data |-> e.id,
                              capture_complete |-> TRUE,
                              capture_error |-> NoError]]
       ELSE [s EXCEPT !.cd.capture_error = "Download failed",
                      !.cd.capture_complete = TRUE]

\* A callback that clears the registry whether or not it got the lock.
StateEventHandlerUnlocked(s, e, free) ==
  IF e.kind = "Shutdown" /\ s.mgr.exists
  THEN [s EXCEPT !.mgr = [CameraManagerDefault EXCEPT !.exists = TRUE]]
  ELSE s

\* state_event_handler; free = try_lock on CAMERA_MANAGER succeeds.
StateEventHandler(s, e, free) ==
  IF e.kind = "Shutdown" /\ s.mgr.exists /\ free
  THEN [s EXCEPT !.mgr.camera_ref = NoRef,
                 !.mgr.session_open = FALSE,
                 !.mgr.event_handler_registered = FALSE,
                 !.mgr.state_event_handler_registered = FALSE]
  ELSE s

IsObjectEvent(e) == e.kind \in {"DirItemCreated", "DirItemRequestTransfer", "Other"}

\* EdsGetEvent dispatching the notifications q, in order, to the callbacks.
RECURSIVE Dispatch(_, _, _, _)
Dispatch(s, q, rec, free) ==
  IF q = <<>> THEN s
  ELSE LET e == Head(q)
           s1 == IF IsObjectEvent(e) THEN ObjectEventHandler(s, e, rec)
                 ELSE StateEventHandler(s, e, free)
       IN Dispatch(s1, Tail(q), rec, free)

\* Positions of canon_take_picture between its reset of CAPTURE_DATA and its
\* read of the result.
WaitsOnCapture == {"tp_saveto", "tp_send", "tp_loop", "tp_check", "tp_drain"}

\* The callback stored a result in CAPTURE_DATA while dispatching q.
Populates(q) ==
  cd.exists /\ \E i \in 1..Len(q) : q[i].kind = "DirItemRequestTransfer"

\* The notifications that have arrived when EdsGetEvent runs: k of the
\* transfer requests the camera owes (downloads succeeding as oks says, each
\* stored image a new item), then the movie file if mv says so, then the
\* shutdown of the device if sd says so.
Arrived(k, oks, mv, sd) ==
  [i \in 1..k |->
     Event("DirItemRequestTransfer", oks[i],
           cam.shots + Cardinality({j \in 1..i : oks[j]})) ]
  \o (IF mv = "none" THEN <<>> ELSE <<Event("DirItemCreated", mv = "ok", 0)>>)
  \o (IF sd THEN <<Event("Shutdown", FALSE, 0)>> ELSE <<>>)

\* The handle EdsRelease was called on when the registry went from m to n.
Released(m, n) ==
  IF m.camera_ref # NoRef /\ n.camera_ref = NoRef THEN {m.camera_ref} ELSE {}

\* EdsGetEvent() called by thread t, whose locals become `mine`: the
\* notifications that have arrived are dispatched synchronously to the
\* callbacks (object events only while object_event_handler is set on a
\* live handle); free = CAMERA_MANAGER is not locked. Every call that waits on
\* CAPTURE_DATA sees the callback's write (sawPop).
EdsGetEvent(t, free, mine) ==
  \E k \in 0..(IF cam.handlers # {} THEN cam.owed ELSE 0) :
  \E oks \in [1..k -> BOOLEAN] :
  \E mv \in (IF cam.owedMovie /\ cam.handlers # {}
             THEN {"none", "ok", "fail"} ELSE {"none"}) :
  \E sd \in (IF mgr.state_event_handler_registered /\ ~cam.down
             THEN BOOLEAN ELSE {FALSE}) :
     LET q == Arrived(k, oks, mv, sd)
         stored == Cardinality({j \in 1..k : oks[j]})
         s == Dispatch([cd |-> cd, md |-> md, mgr |-> mgr], q, isRecording, free)
     IN /\ cam.shots + stored <= MaxShots
        /\ cd' = s.cd
        /\ md' = s.md
        /\ mgr' = s.mgr
        /\ cam' = [cam EXCEPT !.owed = @ - k, !.shots = @ + stored,
                              !.owedMovie = @ /\ mv = "none",
                              !.down = @ \/ sd,
                              !.held = @ \ Released(mgr, s.mgr),
                              !.handlers = @ \ Released(mgr, s.mgr)]
        /\ loc' = [u \in Threads |->
                     LET l == IF u = t THEN mine ELSE loc[u]
                     IN IF Populates(q) /\ pc[u] \in WaitsOnCapture
                        THEN [l EXCEPT !.sawPop = TRUE] ELSE l]

\* ---------------------------------------------------------- dispatch
Entry ==
  [canon_initialize |-> "in_check", canon_connect |-> "cn_init",
   canon_open_session |-> "os_init", canon_take_picture |-> "tp_init",
   canon_get_capture_result |-> "gr", canon_process_events |-> "pe_init",
   canon_send_shutter |-> "ss_init", canon_close_session |-> "cs_lock",
   canon_terminate |-> "te_check", canon_start_movie_record |-> "sr_init",
   canon_stop_movie_record |-> "sm_rec",
   canon_stop_movie_record_fast |-> "sf_rec",
   canon_finalize_movie_download |-> "fm_first",
   canon_take_photo_during_recording |-> "pd_rec",
   canon_start_live_view |-> "prop_init", canon_stop_live_view |-> "prop_init",
   canon_get_property |-> "prop_init", canon_set_property |-> "prop_init",
   canon_get_live_view_frame |-> "lv_init"]

\* The worker threads are interchangeable: a command goes to the first idle
\* one.
FirstIdle(t) == pc[t] = "idle" /\ (t = "t1" \/ pc["t1"] # "idle")

\* The host dispatches command o to thread t.
Invoke(t, o) ==
  /\ FirstIdle(t)
  /\ hist.calls < MaxCalls
  /\ hist' = [hist EXCEPT !.calls = @ + 1]
  /\ pc' = Set(pc, t, Entry[o])
  /\ op' = Set(op, t, o)
  /\ res' = NoReturn
  /\ UNCHANGED <<gvars, cont, loc, sm>>

\* The device after EdsSetObjectEventHandler(ref, object_event_handler)
\* succeeded.
SetObjectEventHandler(ref) == [cam EXCEPT !.handlers = @ \cup {ref}]

\* canon_is_connected on the registry m.
IsConnected(m) == m.exists /\ m.camera_ref # NoRef /\ m.session_open

\* ------------------------------------------------- canon_take_picture
\* canon_take_picture without its SDK_INITIALIZED check.
TpInitUnchecked(t) ==
  /\ pc[t] = "tp_init"
  /\ Jump(t, "tp_cas")
  /\ UNCHANGED <<gvars, loc>>

\* if !SDK_INITIALIZED.load()
TpInit(t) ==
  /\ pc[t] = "tp_init"
  /\ IF ~sdkInit
     THEN Return(t, Fail("SDK not initialized"))
     ELSE Jump(t, "tp_cas") /\ UNCHANGED <<isCapturing, loc>>
  /\ UNCHANGED <<sdkInit, mgr, mgrLock, cd, md, isRecording, cam>>

\* A plain store in place of the compare-and-swap.
TpCasUnguarded(t) ==
  /\ pc[t] = "tp_cas"
  /\ isCapturing' = TRUE
  /\ loc' = Set(loc, t, [loc[t] EXCEPT !.guard = TRUE])
  /\ Jump(t, "tp_lock")
  /\ UNCHANGED <<sdkInit, mgr, mgrLock, cd, md, isRecording, cam>>

\* IS_CAPTURING.compare_exchange(false, true); let _guard = CaptureGuard
TpCas(t) ==
  /\ pc[t] = "tp_cas"
  /\ IF isCapturing
     THEN Return(t, Fail("Capture already in progress"))
     ELSE /\ isCapturing' = TRUE
          /\ loc' = Set(loc, t, [loc[t] EXCEPT !.guard = TRUE])
          /\ Jump(t, "tp_lock")
  /\ UNCHANGED <<sdkInit, mgr, mgrLock, cd, md, isRecording, cam>>

\* manager.lock()
TpLock(t) ==
  /\ pc[t] = "tp_lock"
  /\ mgrLock = NoThread
  /\ mgrLock' = t
  /\ Jump(t, "tp_locked")
  /\ UNCHANGED <<sdkInit, mgr, cd, md, isCapturing, isRecording, cam, loc>>

\* The block under the lock: camera_ref, session_open, the object handler.
TpLocked(t) ==
  /\ pc[t] = "tp_locked"
  /\ mgrLock' = NoThread
  /\ IF mgr.camera_ref = NoRef
     THEN Return(t, Fail("No camera connected")) /\ UNCHANGED <<mgr, cam>>
     ELSE IF ~mgr.session_open
     THEN Return(t, Fail("Session not open")) /\ UNCHANGED <<mgr, cam>>
     ELSE IF mgr.event_handler_registered
     THEN /\ loc' = Set(loc, t, [loc[t] EXCEPT !.ref = mgr.camera_ref])
          /\ Jump(t, "tp_reset")
          /\ UNCHANGED <<mgr, cam, isCapturing>>
     ELSE \E ok \in BOOLEAN :
            IF ok
            THEN /\ mgr' = [mgr EXCEPT !.event_handler_registered = TRUE]
                 /\ cam' = SetObjectEventHandler(mgr.camera_ref)
                 /\ loc' = Set(loc, t, [Native(t) EXCEPT !.ref = mgr.camera_ref])
                 /\ Jump(t, "tp_reset")
                 /\ UNCHANGED isCapturing
            ELSE /\ Return(t, Fail("Failed to register event handler"))
                 /\ UNCHANGED <<mgr, cam>>
  /\ UNCHANGED <<sdkInit, cd, md, isRecording>>

\* CAPTURE_DATA.get_or_init(); the record is cleared.
TpReset(t) ==
  /\ pc[t] = "tp_reset"
  /\ cd' = [CaptureDataDefault EXCEPT !.exists = TRUE]
  /\ loc' = Set(loc, t, [loc[t] EXCEPT !.sawPop = FALSE])
  /\ Jump(t, "tp_saveto")
  /\ UNCHANGED <<sdkInit, mgr, mgrLock, md, isCapturing, isRecording, cam>>

\* EdsSetPropertyData(SaveTo = Host); EdsSetCapacity
TpSaveTo(t) ==
  /\ pc[t] = "tp_saveto"
  /\ cam' = [cam EXCEPT !.saveTo = "host"]
  /\ loc' = Set(loc, t, Native(t))
  /\ Jump(t, "tp_send")
  /\ UNCHANGED <<sdkInit, mgr, mgrLock, cd, md, isCapturing, isRecording>>

\* EdsSendCommand(TakePicture)
TpSend(t) ==
  /\ pc[t] = "tp_send"
  /\ \E take_error \in (IF cam.down THEN {EDS_ERR_UNLISTED} ELSE TakePictureErrors) :
       IF take_error = EDS_ERR_OK
       THEN /\ cam' = [cam EXCEPT !.owed = Min(@ + 1, MaxOwed)]
            /\ loc' = Set(loc, t, Native(t))
            /\ Jump(t, "tp_loop")
            /\ UNCHANGED isCapturing
       ELSE /\ Return(t, Fail("Take picture failed: " \o error_to_string(take_error)))
            /\ UNCHANGED cam
  /\ UNCHANGED <<sdkInit, mgr, mgrLock, cd, md, isRecording>>

\* A wait loop that goes on until the capture is complete.
TpLoopNoTimeout(t) ==
  /\ pc[t] = "tp_loop"
  /\ EdsGetEvent(t, mgrLock = NoThread, [loc[t] EXCEPT !.n = Min(@ + 1, MaxPumps)])
  /\ Jump(t, "tp_check")
  /\ UNCHANGED <<sdkInit, mgrLock, isCapturing, isRecording>>

\* while start.elapsed() < timeout { EdsGetEvent(); ...
TpLoop(t) ==
  /\ pc[t] = "tp_loop"
  /\ IF loc[t].n < MaxPumps
     THEN /\ EdsGetEvent(t, mgrLock = NoThread, [loc[t] EXCEPT !.n = @ + 1])
          /\ Jump(t, "tp_check")
     ELSE /\ Jump(t, "tp_drain")
          /\ UNCHANGED <<cd, md, mgr, cam, loc>>
  /\ UNCHANGED <<sdkInit, mgrLock, isCapturing, isRecording>>

\* ... if cd.capture_complete { break } sleep(20ms) }
TpCheck(t) ==
  /\ pc[t] = "tp_check"
  /\ Jump(t, IF cd.capture_complete THEN "tp_drain" ELSE "tp_loop")
  /\ UNCHANGED <<gvars, loc>>

\* A result that reports an empty record as the generic Err.
DrainResultGeneric ==
  IF cd.capture_error # NoError THEN Fail(cd.capture_error)
  ELSE IF cd.image_data # NoImage THEN CaptureResult(TRUE, NoError, cd.image_data)
  ELSE ErrVal("Capture failed")

\* The result read out of CAPTURE_DATA by the blocking capture flows.
DrainResult ==
  IF cd.capture_error # NoError THEN Fail(cd.capture_error)
  ELSE IF cd.image_data # NoImage THEN CaptureResult(TRUE, NoError, cd.image_data)
  ELSE Fail("Capture timeout - no image received")

\* A read that copies image_data instead of taking it.
DrainedKeepsImage ==
  [cd EXCEPT !.capture_error = NoError, !.capture_complete = FALSE]

\* image_data.take(); capture_error.take(); capture_complete = false
Drained ==
  [cd EXCEPT !.image_data = NoImage, !.capture_error = NoError,
             !.capture_complete = FALSE]

\* The result is taken out of CAPTURE_DATA and returned.
TpDrain(t) ==
  /\ pc[t] = "tp_drain"
  /\ cd' = Drained
  /\ Return(t, DrainResult)
  /\ UNCHANGED <<sdkInit, mgr, mgrLock, md, isRecording, cam>>

canon_take_picture(t) ==
  \/ TpInit(t) \/ TpCas(t) \/ TpLock(t) \/ TpLocked(t) \/ TpReset(t)
  \/ TpSaveTo(t) \/ TpSend(t) \/ TpLoop(t) \/ TpCheck(t) \/ TpDrain(t)

\* -------------------------------------------- canon_get_capture_result
\* What canon_get_capture_result returns in the current state: no record, a
\* pending capture, or the terminal result.
PollResult ==
  IF ~cd.exists THEN Fail("No capture in progress")
  ELSE IF ~cd.capture_complete THEN Fail(NoError)
  ELSE IF cd.capture_error # NoError THEN Fail(cd.capture_error)
  ELSE IF cd.image_data # NoImage THEN CaptureResult(TRUE, NoError, cd.image_data)
  ELSE Fail("Capture complete but no data")

\* CAPTURE_DATA.get(); under its lock: pending, or the result taken out.
GetCaptureResult(t) ==
  /\ pc[t] = "gr"
  /\ cd' = IF cd.exists /\ cd.capture_complete THEN Drained ELSE cd
  /\ Return(t, PollResult)
  /\ UNCHANGED <<sdkInit, mgr, mgrLock, md, isRecording, cam>>

\* ------------------------------------------------ canon_process_events
PeInit(t) ==
  /\ pc[t] = "pe_init"
  /\ IF ~sdkInit
     THEN Return(t, OkVal("false"))
     ELSE Jump(t, "pe_cap") /\ UNCHANGED <<isCapturing, loc>>
  /\ UNCHANGED <<sdkInit, mgr, mgrLock, cd, md, isRecording, cam>>

\* if IS_CAPTURING.load() { return true }
PeCap(t) ==
  /\ pc[t] = "pe_cap"
  /\ IF isCapturing
     THEN Return(t, OkVal("true"))
     ELSE Jump(t, "pe_pump") /\ UNCHANGED <<isCapturing, loc>>
  /\ UNCHANGED <<sdkInit, mgr, mgrLock, cd, md, isRecording, cam>>

\* if let Ok(_guard) = manager.try_lock() { EdsGetEvent() }: the callbacks
\* run with the lock held by this thread.
PePump(t) ==
  /\ pc[t] = "pe_pump"
  /\ IF mgr.exists /\ mgrLock = NoThread
     THEN /\ EdsGetEvent(t, FALSE, Native(t))
          /\ Jump(t, "pe_ret")
     ELSE /\ Jump(t, "pe_ret")
          /\ UNCHANGED <<cd, md, mgr, cam, loc>>
  /\ UNCHANGED <<sdkInit, mgrLock, isCapturing, isRecording>>

PeRet(t) ==
  /\ pc[t] = "pe_ret"
  /\ Return(t, OkVal("true"))
  /\ UNCHANGED <<sdkInit, mgr, mgrLock, cd, md, isRecording, cam>>

canon_process_events(t) == PeInit(t) \/ PeCap(t) \/ PePump(t) \/ PeRet(t)

\* ------- canon_start_live_view, canon_stop_live_view, canon_get_property,
\* ------- canon_set_property
\* The four commands have the same body around one SDK call: the
\* SDK_INITIALIZED check, manager.lock() held to the end of the function, the
\* camera_ref and session_open checks, the call.
PropInit(t) ==
  /\ pc[t] = "prop_init"
  /\ IF ~sdkInit
     THEN Return(t, ErrVal("SDK not initialized"))
     ELSE Jump(t, "prop_lock") /\ UNCHANGED <<isCapturing, loc>>
  /\ UNCHANGED <<sdkInit, mgr, mgrLock, cd, md, isRecording, cam>>

\* CAMERA_MANAGER.get().ok_or(..)?; manager.lock()
PropLock(t) ==
  /\ pc[t] = "prop_lock"
  /\ IF ~mgr.exists
     THEN Return(t, ErrVal("Camera manager not initialized")) /\ UNCHANGED mgrLock
     ELSE /\ mgrLock = NoThread
          /\ mgrLock' = t
          /\ Jump(t, "prop_locked")
          /\ UNCHANGED <<isCapturing, loc>>
  /\ UNCHANGED <<sdkInit, mgr, cd, md, isRecording, cam>>

\* The property writes canon_set_property is called with: the save
\* destination, or a property the model keeps no state for.
PropertyWrites ==
  {[id |-> "SaveTo", value |-> "host"], [id |-> "SaveTo", value |-> "camera"],
   [id |-> "Other", value |-> "any"]}

\* The device after EdsSetPropertyData(w.id, w.value) succeeded.
PropertySet(w) ==
  IF w.id = "SaveTo" THEN [cam EXCEPT !.saveTo = w.value] ELSE cam

\* A command that returns 'Session not open' with the lock still taken.
PropLockedKeepsLock(t) ==
  /\ pc[t] = "prop_locked"
  /\ mgrLock' = IF mgr.camera_ref # NoRef /\ ~mgr.session_open THEN t ELSE NoThread
  /\ Return(t, IF mgr.camera_ref = NoRef THEN ErrVal("No camera connected")
                ELSE IF ~mgr.session_open THEN ErrVal("Session not open")
                ELSE OkVal("true"))
  /\ UNCHANGED <<sdkInit, mgr, cd, md, isRecording, cam>>

\* Under the lock: the checks, then the SDK call of the command; the guard is
\* dropped when the function returns.
PropLocked(t) ==
  /\ pc[t] = "prop_locked"
  /\ mgrLock' = NoThread
  /\ IF mgr.camera_ref = NoRef
     THEN Return(t, ErrVal("No camera connected")) /\ UNCHANGED cam
     ELSE IF ~mgr.session_open
     THEN Return(t, ErrVal("Session not open")) /\ UNCHANGED cam
     ELSE \E ok \in BOOLEAN :
            IF ~ok \/ cam.down
            THEN /\ Return(t, IF op[t] = "canon_get_property" /\ ok
                              THEN OkVal("none") ELSE ErrVal("EDSDK error"))
                 /\ UNCHANGED cam
            ELSE IF op[t] = "canon_set_property"
            THEN \E w \in PropertyWrites :
                   /\ cam' = PropertySet(w)
                   /\ Return(t, OkVal("true"))
            ELSE /\ Return(t, IF op[t] = "canon_get_property"
                              THEN OkVal("some") ELSE OkVal("true"))
                 /\ UNCHANGED cam
  /\ UNCHANGED <<sdkInit, mgr, cd, md, isRecording>>

canon_property(t) == PropInit(t) \/ PropLock(t) \/ PropLocked(t)

\* ------------------------------------------- canon_get_live_view_frame
LvInit(t) ==
  /\ pc[t] = "lv_init"
  /\ IF ~sdkInit
     THEN Return(t, ErrVal("SDK not initialized"))
     ELSE Jump(t, "lv_cap") /\ UNCHANGED <<isCapturing, loc>>
  /\ UNCHANGED <<sdkInit, mgr, mgrLock, cd, md, isRecording, cam>>

\* if IS_CAPTURING.load() { return Ok(None) }
LvCap(t) ==
  /\ pc[t] = "lv_cap"
  /\ IF isCapturing
     THEN Return(t, OkVal("none"))
     ELSE Jump(t, "lv_try") /\ UNCHANGED <<isCapturing, loc>>
  /\ UNCHANGED <<sdkInit, mgr, mgrLock, cd, md, isRecording, cam>>

\* A frame grab that takes the lock with lock() and so waits for its holder.
LvTryWaits(t) ==
  /\ pc[t] = "lv_try"
  /\ IF ~mgr.exists
     THEN Return(t, ErrVal("Camera manager not initialized")) /\ UNCHANGED mgrLock
     ELSE /\ mgrLock = NoThread
          /\ mgrLock' = t
          /\ Jump(t, "lv_locked")
          /\ UNCHANGED <<isCapturing, loc>>
  /\ UNCHANGED <<sdkInit, mgr, cd, md, isRecording, cam>>

\* match manager.try_lock() { Ok(m) => m, Err(_) => return Ok(None) }
LvTry(t) ==
  /\ pc[t] = "lv_try"
  /\ IF ~mgr.exists
     THEN Return(t, ErrVal("Camera manager not initialized")) /\ UNCHANGED mgrLock
     ELSE IF mgrLock # NoThread
     THEN Return(t, OkVal("none")) /\ UNCHANGED mgrLock
     ELSE /\ mgrLock' = t
          /\ Jump(t, "lv_locked")
          /\ UNCHANGED <<isCapturing, loc>>
  /\ UNCHANGED <<sdkInit, mgr, cd, md, isRecording, cam>>

\* Under the lock: the checks, then EdsGetEvent(): the callbacks run with the
\* lock held by this thread.
LvLocked(t) ==
  /\ pc[t] = "lv_locked"
  /\ IF mgr.camera_ref = NoRef \/ ~mgr.session_open
     THEN /\ Return(t, ErrVal(IF mgr.camera_ref = NoRef
                              THEN "No camera connected" ELSE "Session not open"))
          /\ mgrLock' = NoThread
          /\ UNCHANGED <<cd, md, mgr, cam>>
     ELSE /\ EdsGetEvent(t, mgrLock = NoThread, Native(t))
          /\ Jump(t, "lv_frame")
          /\ UNCHANGED <<mgrLock, isCapturing>>
  /\ UNCHANGED <<sdkInit, isRecording>>

\* Still under the lock: the frame is downloaded (Ok(None) if a call fails);
\* the guard is dropped when the function returns.
LvFrame(t) ==
  /\ pc[t] = "lv_frame"
  /\ mgrLock' = NoThread
  /\ \E frame \in {"frame", "none"} : Return(t, OkVal(frame))
  /\ UNCHANGED <<sdkInit, mgr, cd, md, isRecording, cam>>

canon_get_live_view_frame(t) ==
  LvInit(t) \/ LvCap(t) \/ LvTry(t) \/ LvLocked(t) \/ LvFrame(t)

\* ---------------------------------------------------- canon_initialize
InCheck(t) ==
  /\ pc[t] = "in_check"
  /\ IF sdkInit
     THEN Return(t, OkVal("true"))
     ELSE Jump(t, "in_load") /\ UNCHANGED <<isCapturing, loc>>
  /\ UNCHANGED <<sdkInit, mgr, mgrLock, cd, md, isRecording, cam>>

\* load_edsdk(); EdsInitializeSDK()
InLoad(t) ==
  /\ pc[t] = "in_load"
  /\ \E loaded \in {cam.loaded, TRUE} : \E ok \in BOOLEAN :
       /\ cam' = [cam EXCEPT !.loaded = loaded,
                             !.inits = IF loaded /\ ok THEN Min(@ + 1, 2) ELSE @]
       /\ IF loaded /\ ok
          THEN /\ loc' = Set(loc, t, [loc[t] EXCEPT !.native = TRUE])
               /\ Jump(t, "in_store")
               /\ UNCHANGED isCapturing
          ELSE Return(t, ErrVal("SDK init failed"))
  /\ UNCHANGED <<sdkInit, mgr, mgrLock, cd, md, isRecording>>

\* CAMERA_MANAGER.get_or_init(); SDK_INITIALIZED.store(true)
InStore(t) ==
  /\ pc[t] = "in_store"
  /\ mgr' = [mgr EXCEPT !.exists = TRUE]
  /\ sdkInit' = TRUE
  /\ Return(t, OkVal("true"))
  /\ UNCHANGED <<mgrLock, cd, md, isRecording, cam>>

canon_initialize(t) == InCheck(t) \/ InLoad(t) \/ InStore(t)

\* ------------------------------------------------------- canon_connect
CnInit(t) ==
  /\ pc[t] = "cn_init"
  /\ IF ~sdkInit
     THEN Return(t, ErrVal("SDK not initialized"))
     ELSE Jump(t, "cn_lock") /\ UNCHANGED <<isCapturing, loc>>
  /\ UNCHANGED <<sdkInit, mgr, mgrLock, cd, md, isRecording, cam>>

CnLock(t) ==
  /\ pc[t] = "cn_lock"
  /\ mgrLock = NoThread
  /\ mgrLock' = t
  /\ Jump(t, "cn_locked")
  /\ UNCHANGED <<sdkInit, mgr, cd, md, isCapturing, isRecording, cam, loc>>

\* A connect that drops the handle of the open session and leaves
\* session_open as it is.
ClosedExistingKeepsSession ==
  IF mgr.session_open THEN [mgr EXCEPT !.camera_ref = NoRef] ELSE mgr

\* The manager after `if manager.session_open { EdsCloseSession; EdsRelease }`.
ClosedExisting ==
  IF mgr.session_open
  THEN [mgr EXCEPT !.camera_ref = NoRef, !.session_open = FALSE]
  ELSE mgr

\* Under the lock: the existing session is closed, the camera list is read
\* and the handle at the index is retained; it is stored once
\* EdsGetDeviceInfo has succeeded on it.
CnLocked(t) ==
  /\ pc[t] = "cn_locked"
  /\ mgrLock' = NoThread
  /\ \E found \in BOOLEAN : \E info \in BOOLEAN :
       IF found /\ ~cam.down /\ cam.connects < MaxConnects
       THEN /\ mgr' = IF info
                      THEN [ClosedExisting EXCEPT !.camera_ref = cam.connects + 1]
                      ELSE ClosedExisting
            /\ cam' = [cam EXCEPT
                         !.connects = @ + 1,
                         !.held = (@ \ Released(mgr, ClosedExisting))
                                    \cup {cam.connects + 1},
                         !.handlers = @ \ Released(mgr, ClosedExisting)]
            /\ Return(t, IF info THEN OkVal("camera_info")
                                 ELSE ErrVal("EDSDK error"))
       ELSE /\ mgr' = ClosedExisting
            /\ cam' = [cam EXCEPT !.held = @ \ Released(mgr, ClosedExisting),
                                  !.handlers = @ \ Released(mgr, ClosedExisting)]
            /\ Return(t, ErrVal("No camera at specified index"))
  /\ UNCHANGED <<sdkInit, cd, md, isRecording>>

canon_connect(t) == CnInit(t) \/ CnLock(t) \/ CnLocked(t)

\* -------------------------------------------------- canon_open_session
OsInit(t) ==
  /\ pc[t] = "os_init"
  /\ IF ~sdkInit
     THEN Return(t, ErrVal("SDK not initialized"))
     ELSE Jump(t, "os_lock") /\ UNCHANGED <<isCapturing, loc>>
  /\ UNCHANGED <<sdkInit, mgr, mgrLock, cd, md, isRecording, cam>>

OsLock(t) ==
  /\ pc[t] = "os_lock"
  /\ mgrLock = NoThread
  /\ mgrLock' = t
  /\ Jump(t, "os_locked")
  /\ UNCHANGED <<sdkInit, mgr, cd, md, isCapturing, isRecording, cam, loc>>

\* Under the lock: EdsOpenSession, SaveTo = Host, capacity, session_open, and
\* the state event handler if it is not registered.
OsLocked(t) ==
  /\ pc[t] = "os_locked"
  /\ mgrLock' = NoThread
  /\ IF mgr.camera_ref = NoRef
     THEN Return(t, ErrVal("No camera connected")) /\ UNCHANGED <<mgr, cam>>
     ELSE \E ok \in BOOLEAN, reg \in BOOLEAN :
            IF ok /\ ~cam.down
            THEN /\ cam' = [cam EXCEPT !.saveTo = "host"]
                 /\ mgr' = [mgr EXCEPT
                      !.session_open = TRUE,
                      !.state_event_handler_registered = @ \/ reg]
                 /\ Return(t, OkVal("true"))
            ELSE /\ Return(t, ErrVal("EDSDK error"))
                 /\ UNCHANGED <<mgr, cam>>
  /\ UNCHANGED <<sdkInit, cd, md, isRecording>>

canon_open_session(t) == OsInit(t) \/ OsLock(t) \/ OsLocked(t)

\* -------------------------------------------------- canon_send_shutter
SsInit(t) ==
  /\ pc[t] = "ss_init"
  /\ IF ~sdkInit
     THEN Return(t, Fail("SDK not initialized"))
     ELSE Jump(t, "ss_lock") /\ UNCHANGED <<isCapturing, loc>>
  /\ UNCHANGED <<sdkInit, mgr, mgrLock, cd, md, isRecording, cam>>

SsLock(t) ==
  /\ pc[t] = "ss_lock"
  /\ mgrLock = NoThread
  /\ mgrLock' = t
  /\ Jump(t, "ss_locked")
  /\ UNCHANGED <<sdkInit, mgr, cd, md, isCapturing, isRecording, cam, loc>>

SsLocked(t) ==
  /\ pc[t] = "ss_locked"
  /\ mgrLock' = NoThread
  /\ IF mgr.camera_ref = NoRef
     THEN Return(t, Fail("No camera connected")) /\ UNCHANGED <<mgr, cam>>
     ELSE IF ~mgr.session_open
     THEN Return(t, Fail("Session not open")) /\ UNCHANGED <<mgr, cam>>
     ELSE IF mgr.event_handler_registered
     THEN /\ loc' = Set(loc, t, [loc[t] EXCEPT !.ref = mgr.camera_ref])
          /\ Jump(t, "ss_reset")
          /\ UNCHANGED <<mgr, cam, isCapturing>>
     ELSE \E ok \in BOOLEAN :
            IF ok
            THEN /\ mgr' = [mgr EXCEPT !.event_handler_registered = TRUE]
                 /\ cam' = SetObjectEventHandler(mgr.camera_ref)
                 /\ loc' = Set(loc, t, [Native(t) EXCEPT !.ref = mgr.camera_ref])
                 /\ Jump(t, "ss_reset")
                 /\ UNCHANGED isCapturing
            ELSE /\ Return(t, Fail("Failed to register handler"))
                 /\ UNCHANGED <<mgr, cam>>
  /\ UNCHANGED <<sdkInit, cd, md, isRecording>>

SsReset(t) ==
  /\ pc[t] = "ss_reset"
  /\ cd' = [CaptureDataDefault EXCEPT !.exists = TRUE]
  /\ Jump(t, "ss_send")
  /\ UNCHANGED <<sdkInit, mgr, mgrLock, md, isCapturing, isRecording, cam, loc>>

\* EdsSendCommand(TakePicture); the caller polls canon_get_capture_result.
SsSend(t) ==
  /\ pc[t] = "ss_send"
  /\ \E ok \in BOOLEAN :
       IF ok /\ ~cam.down
       THEN /\ cam' = [cam EXCEPT !.owed = Min(@ + 1, MaxOwed)]
            /\ Return(t, CaptureResult(TRUE, NoError, NoImage))
       ELSE /\ Return(t, Fail("Shutter failed"))
            /\ UNCHANGED cam
  /\ UNCHANGED <<sdkInit, mgr, mgrLock, cd, md, isRecording>>

canon_send_shutter(t) ==
  SsInit(t) \/ SsLock(t) \/ SsLocked(t) \/ SsReset(t) \/ SsSend(t)

\* ------------------------------------------------- canon_close_session
\* CAMERA_MANAGER.get(); manager.lock()
CsLock(t) ==
  /\ pc[t] = "cs_lock"
  /\ IF ~mgr.exists
     THEN Return(t, OkVal("true")) /\ UNCHANGED mgrLock
     ELSE /\ mgrLock = NoThread
          /\ mgrLock' = t
          /\ Jump(t, "cs_locked")
          /\ UNCHANGED <<isCapturing, loc>>
  /\ UNCHANGED <<sdkInit, mgr, cd, md, isRecording, cam>>

\* A close that clears the handle and session_open and leaves the two
\* registration flags as they are.
CloseSessionKeepsHandlers(m) ==
  IF ~m.session_open THEN m
  ELSE [m EXCEPT !.camera_ref = NoRef, !.session_open = FALSE]

\* The registry m after the locked block of canon_close_session: nothing is
\* done unless the session is open.
CloseSession(m) ==
  IF ~m.session_open THEN m
  ELSE [CameraManagerDefault EXCEPT !.exists = TRUE]

\* Under the lock: EdsCloseSession, EdsRelease, the flags cleared.
CsLocked(t) ==
  /\ pc[t] = "cs_locked"
  /\ mgrLock' = NoThread
  /\ mgr' = CloseSession(mgr)
  /\ Return(t, OkVal("true"))
  /\ cam' = [cam EXCEPT !.held = @ \ Released(mgr, mgr'),
                        !.handlers = @ \ Released(mgr, mgr')]
  /\ UNCHANGED <<sdkInit, cd, md, isRecording>>

canon_close_session(t) == CsLock(t) \/ CsLocked(t)

\* ----------------------------------------------------- canon_terminate
\* if !SDK_INITIALIZED { return Ok(true) }; let _ = canon_close_session()
TeCheck(t) ==
  /\ pc[t] = "te_check"
  /\ IF ~sdkInit
     THEN Return(t, OkVal("true"))
     ELSE /\ pc' = Set(pc, t, "cs_lock")
          /\ cont' = Set(cont, t, "te_term")
          /\ res' = NoReturn
          /\ UNCHANGED <<op, hist, isCapturing, loc, sm>>
  /\ UNCHANGED <<sdkInit, mgr, mgrLock, cd, md, isRecording, cam>>

\* EdsTerminateSDK(); check_error(error)?
TeTerm(t) ==
  /\ pc[t] = "te_term"
  /\ \E ok \in BOOLEAN :
       IF ok
       THEN /\ cam' = [cam EXCEPT !.inits = 0]
            /\ loc' = Set(loc, t, Native(t))
            /\ Jump(t, "te_store")
            /\ UNCHANGED isCapturing
       ELSE Return(t, ErrVal("EDSDK error")) /\ UNCHANGED cam
  /\ UNCHANGED <<sdkInit, mgr, mgrLock, cd, md, isRecording>>

\* SDK_INITIALIZED.store(false)
TeStore(t) ==
  /\ pc[t] = "te_store"
  /\ sdkInit' = FALSE
  /\ Return(t, OkVal("true"))
  /\ UNCHANGED <<mgr, mgrLock, cd, md, isRecording, cam>>

canon_terminate(t) == TeCheck(t) \/ TeTerm(t) \/ TeStore(t)

\* --------------------------------------------- canon_start_movie_record
SrInit(t) ==
  /\ pc[t] = "sr_init"
  /\ IF ~sdkInit
     THEN Return(t, ErrVal("SDK not initialized"))
     ELSE Jump(t, "sr_rec") /\ UNCHANGED <<isCapturing, loc>>
  /\ UNCHANGED <<sdkInit, mgr, mgrLock, cd, md, isRecording, cam>>

\* A start that does not look at IS_MOVIE_RECORDING.
SrRecRestarts(t) ==
  /\ pc[t] = "sr_rec"
  /\ Jump(t, "sr_lock")
  /\ UNCHANGED <<gvars, loc>>

\* if IS_MOVIE_RECORDING.load() { return Ok(true) }
SrRec(t) ==
  /\ pc[t] = "sr_rec"
  /\ IF isRecording
     THEN Return(t, OkVal("true"))
     ELSE Jump(t, "sr_lock") /\ UNCHANGED <<isCapturing, loc>>
  /\ UNCHANGED <<sdkInit, mgr, mgrLock, cd, md, isRecording, cam>>

SrLock(t) ==
  /\ pc[t] = "sr_lock"
  /\ mgrLock = NoThread
  /\ mgrLock' = t
  /\ Jump(t, "sr_locked")
  /\ UNCHANGED <<sdkInit, mgr, cd, md, isCapturing, isRecording, cam, loc>>

SrLocked(t) ==
  /\ pc[t] = "sr_locked"
  /\ mgrLock' = NoThread
  /\ IF mgr.camera_ref = NoRef
     THEN Return(t, ErrVal("No camera connected")) /\ UNCHANGED <<mgr, cam>>
     ELSE IF ~mgr.session_open
     THEN Return(t, ErrVal("Session not open")) /\ UNCHANGED <<mgr, cam>>
     ELSE IF mgr.event_handler_registered
     THEN /\ loc' = Set(loc, t, [loc[t] EXCEPT !.ref = mgr.camera_ref])
          /\ Jump(t, "sr_reset")
          /\ UNCHANGED <<mgr, cam, isCapturing>>
     ELSE \E ok \in BOOLEAN :
            IF ok
            THEN /\ mgr' = [mgr EXCEPT !.event_handler_registered = TRUE]
                 /\ cam' = SetObjectEventHandler(mgr.camera_ref)
                 /\ loc' = Set(loc, t, [Native(t) EXCEPT !.ref = mgr.camera_ref])
                 /\ Jump(t, "sr_reset")
                 /\ UNCHANGED isCapturing
            ELSE /\ Return(t, ErrVal("Failed to register handler"))
                 /\ UNCHANGED <<mgr, cam>>
  /\ UNCHANGED <<sdkInit, cd, md, isRecording>>

\* MOVIE_DATA.get_or_init(); the record is cleared.
MovieReset == [MovieDataDefault EXCEPT !.exists = TRUE]

SrReset(t) ==
  /\ pc[t] = "sr_reset"
  /\ md' = MovieReset
  /\ Jump(t, "sr_saveto")
  /\ UNCHANGED <<sdkInit, mgr, mgrLock, cd, isCapturing, isRecording, cam, loc>>

\* SaveTo = Camera; MovieSelectSwON; the AF, mirror and quality properties;
\* EVF output to the PC.
SrSaveTo(t) ==
  /\ pc[t] = "sr_saveto"
  /\ cam' = [cam EXCEPT !.saveTo = "camera", !.movieSw = "on"]
  /\ loc' = Set(loc, t, Native(t))
  /\ Jump(t, "sr_begin")
  /\ UNCHANGED <<sdkInit, mgr, mgrLock, cd, md, isCapturing, isRecording>>

\* A start that returns the error of Record = Begin and leaves the camera in
\* movie mode.
SrBeginNoRevert(t) ==
  /\ pc[t] = "sr_begin"
  /\ \E ok \in BOOLEAN :
       IF ok /\ ~cam.down
       THEN /\ cam' = [cam EXCEPT !.recording = TRUE]
            /\ Jump(t, "sr_store")
            /\ UNCHANGED <<isCapturing, loc>>
       ELSE /\ Return(t, ErrVal("Start recording failed"))
            /\ UNCHANGED cam
  /\ UNCHANGED <<sdkInit, mgr, mgrLock, cd, md, isRecording>>

\* EdsSetPropertyData(Record = Begin); on failure MovieSelectSwOFF and Err.
SrBegin(t) ==
  /\ pc[t] = "sr_begin"
  /\ \E ok \in BOOLEAN :
       IF ok /\ ~cam.down
       THEN /\ cam' = [cam EXCEPT !.recording = TRUE]
            /\ Jump(t, "sr_store")
            /\ UNCHANGED <<isCapturing, loc>>
       ELSE /\ Return(t, ErrVal("Start recording failed"))
            /\ cam' = [cam EXCEPT !.movieSw = "off"]
  /\ UNCHANGED <<sdkInit, mgr, mgrLock, cd, md, isRecording>>

\* IS_MOVIE_RECORDING.store(true)
SrStore(t) ==
  /\ pc[t] = "sr_store"
  /\ isRecording' = TRUE
  /\ Return(t, OkVal("true"))
  /\ UNCHANGED <<sdkInit, mgr, mgrLock, cd, md, cam>>

canon_start_movie_record(t) ==
  \/ SrInit(t) \/ SrRec(t) \/ SrLock(t) \/ SrLocked(t) \/ SrReset(t)
  \/ SrSaveTo(t) \/ SrBegin(t) \/ SrStore(t)

\* The device after EdsSetPropertyData(Record = End): a recording that ends
\* leaves a movie file to announce.
RecordEnd ==
  IF cam.recording /\ ~cam.down
  THEN [cam EXCEPT !.recording = FALSE, !.owedMovie = TRUE]
  ELSE cam

\* ---------------------------------------------- canon_stop_movie_record
\* if !IS_MOVIE_RECORDING { return Err("Not currently recording") }
SmRec(t) ==
  /\ pc[t] = "sm_rec"
  /\ IF ~isRecording
     THEN Return(t, ErrVal("Not currently recording"))
     ELSE Jump(t, "sm_lock") /\ UNCHANGED <<isCapturing, loc>>
  /\ UNCHANGED <<sdkInit, mgr, mgrLock, cd, md, isRecording, cam>>

\* CAMERA_MANAGER.get().ok_or(..)?;
\* { manager.lock(); manager.camera_ref.ok_or("No camera connected")? }
SmLock(t) ==
  /\ pc[t] = "sm_lock"
  /\ IF ~mgr.exists
     THEN Return(t, ErrVal("Camera manager not initialized"))
     ELSE /\ mgrLock = NoThread
          /\ IF mgr.camera_ref = NoRef
             THEN Return(t, ErrVal("No camera connected"))
             ELSE /\ loc' = Set(loc, t, [loc[t] EXCEPT !.ref = mgr.camera_ref])
                  /\ Jump(t, "sm_reset")
                  /\ UNCHANGED isCapturing
  /\ UNCHANGED <<sdkInit, mgr, mgrLock, cd, md, isRecording, cam>>

SmReset(t) ==
  /\ pc[t] = "sm_reset"
  /\ md' = MovieReset
  /\ Jump(t, "sm_stop")
  /\ UNCHANGED <<sdkInit, mgr, mgrLock, cd, isCapturing, isRecording, cam, loc>>

\* Record = End; a failure is logged and the wait goes on.
SmStop(t) ==
  /\ pc[t] = "sm_stop"
  /\ cam' = RecordEnd
  /\ loc' = Set(loc, t, Native(t))
  /\ Jump(t, "sm_loop")
  /\ UNCHANGED <<sdkInit, mgr, mgrLock, cd, md, isCapturing, isRecording>>

\* while start.elapsed() < timeout { EdsGetEvent(); ...
SmLoop(t) ==
  /\ pc[t] = "sm_loop"
  /\ IF loc[t].n < MaxPumps
     THEN /\ EdsGetEvent(t, mgrLock = NoThread, [Native(t) EXCEPT !.n = @ + 1])
          /\ Jump(t, "sm_check")
     ELSE /\ Jump(t, "sm_store")
          /\ UNCHANGED <<cd, md, mgr, cam, loc>>
  /\ UNCHANGED <<sdkInit, mgrLock, isCapturing, isRecording>>

\* ... if md.download_complete { break } sleep(50ms) }
SmCheck(t) ==
  /\ pc[t] = "sm_check"
  /\ Jump(t, IF md.download_complete THEN "sm_store" ELSE "sm_loop")
  /\ UNCHANGED <<gvars, loc>>

\* IS_MOVIE_RECORDING.store(false)
SmStore(t) ==
  /\ pc[t] = "sm_store"
  /\ isRecording' = FALSE
  /\ Jump(t, "sm_restore")
  /\ UNCHANGED <<sdkInit, mgr, mgrLock, cd, md, isCapturing, cam, loc>>

\* MovieSelectSwOFF; SaveTo = Host; EdsSetCapacity.
SmRestore(t) ==
  /\ pc[t] = "sm_restore"
  /\ cam' = [cam EXCEPT !.saveTo = "host", !.movieSw = "off"]
  /\ Jump(t, "sm_result")
  /\ UNCHANGED <<sdkInit, mgr, mgrLock, cd, md, isCapturing, isRecording, loc>>

\* The result canon_stop_movie_record reads from MOVIE_DATA.
StopResult ==
  IF md.download_error # NoError THEN ErrVal("Movie download failed")
  ELSE IF md.movie_path # NoPath THEN OkVal(md.movie_path)
  ELSE ErrVal("Movie download timeout - no file received from camera")

SmResult(t) ==
  /\ pc[t] = "sm_result"
  /\ Return(t, StopResult)
  /\ UNCHANGED <<sdkInit, mgr, mgrLock, cd, md, isRecording, cam>>

canon_stop_movie_record(t) ==
  \/ SmRec(t) \/ SmLock(t) \/ SmReset(t) \/ SmStop(t) \/ SmLoop(t)
  \/ SmCheck(t) \/ SmStore(t) \/ SmRestore(t) \/ SmResult(t)

\* ----------------------------------------- canon_stop_movie_record_fast
SfRec(t) ==
  /\ pc[t] = "sf_rec"
  /\ IF ~isRecording
     THEN Return(t, ErrVal("Not currently recording"))
     ELSE Jump(t, "sf_lock") /\ UNCHANGED <<isCapturing, loc>>
  /\ UNCHANGED <<sdkInit, mgr, mgrLock, cd, md, isRecording, cam>>

\* { manager.lock(); manager.camera_ref.ok_or("No camera connected")? }
SfLock(t) ==
  /\ pc[t] = "sf_lock"
  /\ mgrLock = NoThread
  /\ IF mgr.camera_ref = NoRef
     THEN Return(t, ErrVal("No camera connected"))
     ELSE /\ loc' = Set(loc, t, [loc[t] EXCEPT !.ref = mgr.camera_ref])
          /\ Jump(t, "sf_reset")
          /\ UNCHANGED isCapturing
  /\ UNCHANGED <<sdkInit, mgr, mgrLock, cd, md, isRecording, cam>>

SfReset(t) ==
  /\ pc[t] = "sf_reset"
  /\ md' = MovieReset
  /\ Jump(t, "sf_stop")
  /\ UNCHANGED <<sdkInit, mgr, mgrLock, cd, isCapturing, isRecording, cam, loc>>

\* Record = End; MovieSelectSwOFF; EVF output off.
SfStop(t) ==
  /\ pc[t] = "sf_stop"
  /\ cam' = [RecordEnd EXCEPT !.movieSw = "off"]
  /\ loc' = Set(loc, t, Native(t))
  /\ Jump(t, "sf_saveto")
  /\ UNCHANGED <<sdkInit, mgr, mgrLock, cd, md, isCapturing, isRecording>>

\* A fast stop that clears IS_MOVIE_RECORDING as the waiting stop does.
SfSaveToClears(t) ==
  /\ pc[t] = "sf_saveto"
  /\ cam' = [cam EXCEPT !.saveTo = "host"]
  /\ isRecording' = FALSE
  /\ Return(t, OkVal("true"))
  /\ UNCHANGED <<sdkInit, mgr, mgrLock, cd, md>>

\* SaveTo = Host; EdsSetCapacity; IS_MOVIE_RECORDING stays true.
SfSaveTo(t) ==
  /\ pc[t] = "sf_saveto"
  /\ cam' = [cam EXCEPT !.saveTo = "host"]
  /\ Return(t, OkVal("true"))
  /\ UNCHANGED <<sdkInit, mgr, mgrLock, cd, md, isRecording>>

canon_stop_movie_record_fast(t) ==
  SfRec(t) \/ SfLock(t) \/ SfReset(t) \/ SfStop(t) \/ SfSaveTo(t)

\* ---------------------------------------- canon_finalize_movie_download
\* check_download(): Some(result) once MOVIE_DATA is complete.
CheckDownload ==
  IF md.download_error # NoError THEN ErrVal("Movie download failed")
  ELSE IF md.movie_path # NoPath THEN OkVal(md.movie_path)
  ELSE ErrVal("Movie download completed but no file path")

TimeoutErr == ErrVal("Movie download timeout")

\* A fetch that enters the wait loop whatever MOVIE_DATA holds.
FmFirstAlwaysWaits(t) ==
  /\ pc[t] = "fm_first"
  /\ md' = [md EXCEPT !.exists = TRUE]
  /\ Jump(t, "fm_loop")
  /\ UNCHANGED <<sdkInit, mgr, mgrLock, cd, isCapturing, isRecording, cam, loc>>

\* MOVIE_DATA.get_or_init(); if let Some(result) = check_download()
FmFirst(t) ==
  /\ pc[t] = "fm_first"
  /\ md' = [md EXCEPT !.exists = TRUE]
  /\ IF md.download_complete
     THEN /\ loc' = Set(loc, t, [loc[t] EXCEPT !.tmp = CheckDownload])
          /\ Jump(t, "fm_done")
     ELSE /\ Jump(t, "fm_loop")
          /\ UNCHANGED loc
  /\ UNCHANGED <<sdkInit, mgr, mgrLock, cd, isCapturing, isRecording, cam>>

\* A wait loop that has no timeout.
FmLoopNoTimeout(t) ==
  /\ pc[t] = "fm_loop"
  /\ EdsGetEvent(t, mgrLock = NoThread, Native(t))
  /\ Jump(t, "fm_check")
  /\ UNCHANGED <<sdkInit, mgrLock, isCapturing, isRecording>>

\* while start.elapsed() < timeout { EdsGetEvent(); ...
FmLoop(t) ==
  /\ pc[t] = "fm_loop"
  /\ IF loc[t].n < MaxPumps
     THEN /\ EdsGetEvent(t, mgrLock = NoThread, [Native(t) EXCEPT !.n = @ + 1])
          /\ Jump(t, "fm_check")
     ELSE /\ loc' = Set(loc, t, [loc[t] EXCEPT !.tmp = TimeoutErr])
          /\ Jump(t, "fm_done")
          /\ UNCHANGED <<cd, md, mgr, cam>>
  /\ UNCHANGED <<sdkInit, mgrLock, isCapturing, isRecording>>

\* ... if let Some(result) = check_download() { ... } sleep(50ms) }
FmCheck(t) ==
  /\ pc[t] = "fm_check"
  /\ IF md.download_complete
     THEN /\ loc' = Set(loc, t, [loc[t] EXCEPT !.tmp = CheckDownload])
          /\ Jump(t, "fm_done")
     ELSE /\ Jump(t, "fm_loop")
          /\ UNCHANGED loc
  /\ UNCHANGED gvars

\* IS_MOVIE_RECORDING.store(false)
FmDone(t) ==
  /\ pc[t] = "fm_done"
  /\ isRecording' = FALSE
  /\ Jump(t, "fm_lock")
  /\ UNCHANGED <<sdkInit, mgr, mgrLock, cd, md, isCapturing, cam, loc>>

\* restore_save_to_host(): CAMERA_MANAGER.get(); manager.lock()
FmLock(t) ==
  /\ pc[t] = "fm_lock"
  /\ IF ~mgr.exists
     THEN Return(t, loc[t].tmp) /\ UNCHANGED mgrLock
     ELSE /\ mgrLock = NoThread
          /\ mgrLock' = t
          /\ Jump(t, "fm_restore")
          /\ UNCHANGED <<isCapturing, loc>>
  /\ UNCHANGED <<sdkInit, mgr, cd, md, isRecording, cam>>

\* if let Some(camera_ref) = manager.camera_ref { SaveTo = Host; capacity }
FmRestore(t) ==
  /\ pc[t] = "fm_restore"
  /\ mgrLock' = NoThread
  /\ cam' = IF mgr.camera_ref # NoRef THEN [cam EXCEPT !.saveTo = "host"] ELSE cam
  /\ Return(t, loc[t].tmp)
  /\ UNCHANGED <<sdkInit, mgr, cd, md, isRecording>>

canon_finalize_movie_download(t) ==
  FmFirst(t) \/ FmLoop(t) \/ FmCheck(t) \/ FmDone(t) \/ FmLock(t) \/ FmRestore(t)

\* ------------------------------------ canon_take_photo_during_recording
\* if !IS_MOVIE_RECORDING.load() { return canon_take_picture() }
PdRec(t) ==
  /\ pc[t] = "pd_rec"
  /\ Jump(t, IF isRecording THEN "pd_init" ELSE "tp_init")
  /\ UNCHANGED <<gvars, loc>>

PdInit(t) ==
  /\ pc[t] = "pd_init"
  /\ IF ~sdkInit
     THEN Return(t, Fail("SDK not initialized"))
     ELSE Jump(t, "pd_cas") /\ UNCHANGED <<isCapturing, loc>>
  /\ UNCHANGED <<sdkInit, mgr, mgrLock, cd, md, isRecording, cam>>

\* IS_CAPTURING.compare_exchange(false, true); let _guard = CaptureGuard
PdCas(t) ==
  /\ pc[t] = "pd_cas"
  /\ IF isCapturing
     THEN Return(t, Fail("Capture already in progress"))
     ELSE /\ isCapturing' = TRUE
          /\ loc' = Set(loc, t, [loc[t] EXCEPT !.guard = TRUE])
          /\ Jump(t, "pd_lock")
  /\ UNCHANGED <<sdkInit, mgr, mgrLock, cd, md, isRecording, cam>>

\* { manager.lock(); manager.camera_ref.ok_or("No camera connected")? }
PdLock(t) ==
  /\ pc[t] = "pd_lock"
  /\ mgrLock = NoThread
  /\ IF mgr.camera_ref = NoRef
     THEN Return(t, ErrVal("No camera connected"))
     ELSE /\ loc' = Set(loc, t, [loc[t] EXCEPT !.ref = mgr.camera_ref])
          /\ Jump(t, "pd_saveto")
          /\ UNCHANGED isCapturing
  /\ UNCHANGED <<sdkInit, mgr, mgrLock, cd, md, isRecording, cam>>

\* SaveTo = Both; EdsSetCapacity
PdSaveTo(t) ==
  /\ pc[t] = "pd_saveto"
  /\ cam' = [cam EXCEPT !.saveTo = "both"]
  /\ loc' = Set(loc, t, Native(t))
  /\ Jump(t, "pd_reset")
  /\ UNCHANGED <<sdkInit, mgr, mgrLock, cd, md, isCapturing, isRecording>>

\* CAPTURE_DATA and MOVIE_DATA are cleared.
PdReset(t) ==
  /\ pc[t] = "pd_reset"
  /\ cd' = [CaptureDataDefault EXCEPT !.exists = TRUE]
  /\ md' = MovieReset
  /\ Jump(t, "pd_press")
  /\ UNCHANGED <<sdkInit, mgr, mgrLock, isCapturing, isRecording, cam, loc>>

\* EdsSendCommand(PressShutterButton, Completely_NonAF)
PdPress(t) ==
  /\ pc[t] = "pd_press"
  /\ \E ok \in BOOLEAN :
       IF ok /\ ~cam.down
       THEN /\ cam' = [cam EXCEPT !.owed = Min(@ + 1, MaxOwed)]
            /\ loc' = Set(loc, t, [loc[t] EXCEPT !.pressed = TRUE,
                                                  !.shot = TRUE])
            /\ Jump(t, "pd_loop")
       ELSE /\ Jump(t, "pd_fb_drop")
            /\ loc' = Set(loc, t, [loc[t] EXCEPT !.pressed = TRUE])
            /\ UNCHANGED cam
  /\ UNCHANGED <<sdkInit, mgr, mgrLock, cd, md, isCapturing, isRecording>>

\* A fallback that drops the guard and leaves the shutter button pressed.
PdFbDropNoRelease(t) ==
  /\ pc[t] = "pd_fb_drop"
  /\ isCapturing' = FALSE
  /\ loc' = Set(loc, t, [loc[t] EXCEPT !.guard = FALSE])
  /\ Jump(t, "pd_fb_store")
  /\ UNCHANGED <<sdkInit, mgr, mgrLock, cd, md, isRecording, cam>>

\* The press failed: PressShutterButton(OFF); drop(_guard)
PdFbDrop(t) ==
  /\ pc[t] = "pd_fb_drop"
  /\ isCapturing' = FALSE
  /\ loc' = Set(loc, t, [loc[t] EXCEPT !.guard = FALSE, !.pressed = FALSE])
  /\ Jump(t, "pd_fb_store")
  /\ UNCHANGED <<sdkInit, mgr, mgrLock, cd, md, isRecording, cam>>

\* A fallback that goes straight to the capture, the recording left running.
PdFbStoreSkipsStop(t) ==
  /\ pc[t] = "pd_fb_store"
  /\ isCapturing' = FALSE
  /\ Jump(t, "tp_init")
  /\ UNCHANGED <<sdkInit, mgr, mgrLock, cd, md, isRecording, cam, loc>>

\* IS_CAPTURING.store(false); let _ = canon_stop_movie_record_fast()
PdFbStore(t) ==
  /\ pc[t] = "pd_fb_store"
  /\ isCapturing' = FALSE
  /\ pc' = Set(pc, t, "sf_rec")
  /\ cont' = Set(cont, t, "tp_init")
  /\ res' = NoReturn
  /\ UNCHANGED <<sdkInit, mgr, mgrLock, cd, md, isRecording, cam, op,
                 hist, loc, sm>>

\* while start.elapsed() < timeout { EdsGetEvent(); ...
PdLoop(t) ==
  /\ pc[t] = "pd_loop"
  /\ IF loc[t].n < MaxPumps
     THEN /\ EdsGetEvent(t, mgrLock = NoThread, [loc[t] EXCEPT !.n = @ + 1])
          /\ Jump(t, "pd_check")
     ELSE /\ Jump(t, "pd_release")
          /\ UNCHANGED <<cd, md, mgr, cam, loc>>
  /\ UNCHANGED <<sdkInit, mgrLock, isCapturing, isRecording>>

\* ... if cd.capture_complete { break } sleep(20ms) }
PdCheck(t) ==
  /\ pc[t] = "pd_check"
  /\ Jump(t, IF cd.capture_complete THEN "pd_release" ELSE "pd_loop")
  /\ UNCHANGED <<gvars, loc>>

\* PressShutterButton(OFF) after the loop.
PdRelease(t) ==
  /\ pc[t] = "pd_release"
  /\ loc' = Set(loc, t, [loc[t] EXCEPT !.pressed = FALSE])
  /\ Jump(t, "pd_stop")
  /\ UNCHANGED gvars

\* Record = End (a failure is logged only).
PdStop(t) ==
  /\ pc[t] = "pd_stop"
  /\ cam' = RecordEnd
  /\ Jump(t, "pd_leave")
  /\ UNCHANGED <<sdkInit, mgr, mgrLock, cd, md, isCapturing, isRecording, loc>>

\* MovieSelectSwOFF; EVF output off.  SaveTo is left as it is.
PdLeave(t) ==
  /\ pc[t] = "pd_leave"
  /\ cam' = [cam EXCEPT !.movieSw = "off"]
  /\ Jump(t, "pd_drain")
  /\ UNCHANGED <<sdkInit, mgr, mgrLock, cd, md, isCapturing, isRecording, loc>>

\* The photo result is taken out of CAPTURE_DATA; with no image and no error
\* the guard is dropped for the stop-then-shoot fallback.
PdDrain(t) ==
  /\ pc[t] = "pd_drain"
  /\ cd' = Drained
  /\ IF cd.capture_error # NoError \/ cd.image_data # NoImage
     THEN Return(t, DrainResult)
     ELSE /\ isCapturing' = FALSE
          /\ loc' = Set(loc, t, [loc[t] EXCEPT !.guard = FALSE])
          /\ Jump(t, "pd_fb2_store")
  /\ UNCHANGED <<sdkInit, mgr, mgrLock, md, isRecording, cam>>

\* IS_CAPTURING.store(false); MovieSelectSwOFF; EVF output off;
\* canon_take_picture(), a call with locals of its own.
PdFb2Store(t) ==
  /\ pc[t] = "pd_fb2_store"
  /\ isCapturing' = FALSE
  /\ cam' = [cam EXCEPT !.movieSw = "off"]
  /\ loc' = Set(loc, t, [LocalsDefault EXCEPT !.native = loc[t].native,
                                              !.shot = loc[t].shot])
  /\ Jump(t, "tp_init")
  /\ UNCHANGED <<sdkInit, mgr, mgrLock, cd, md, isRecording>>

canon_take_photo_during_recording(t) ==
  \/ PdRec(t) \/ PdInit(t) \/ PdCas(t) \/ PdLock(t) \/ PdSaveTo(t) \/ PdReset(t)
  \/ PdPress(t) \/ PdFbDrop(t) \/ PdFbStore(t) \/ PdLoop(t) \/ PdCheck(t)
  \/ PdRelease(t) \/ PdStop(t) \/ PdLeave(t) \/ PdDrain(t) \/ PdFb2Store(t)

\* ------------------------------------------------------------- system
Commands == DOMAIN Entry

Next ==
  \E t \in Threads :
       \/ \E o \in Commands : Invoke(t, o)
       \/ canon_initialize(t)
       \/ canon_connect(t)
       \/ canon_open_session(t)
       \/ canon_take_picture(t)
       \/ GetCaptureResult(t)
       \/ canon_process_events(t)
       \/ canon_send_shutter(t)
       \/ canon_close_session(t)
       \/ canon_terminate(t)
       \/ canon_start_movie_record(t)
       \/ canon_stop_movie_record(t)
       \/ canon_stop_movie_record_fast(t)
       \/ canon_finalize_movie_download(t)
       \/ canon_take_photo_during_recording(t)
       \/ canon_property(t)
       \/ canon_get_live_view_frame(t)

Spec == Init /\ [][Next]_vars

\* The still-capture workload: the host brings the camera up and takes
\* pictures, blocking or polled.
CaptureCommands ==
  {"canon_initialize", "canon_connect", "canon_open_session",
   "canon_take_picture", "canon_send_shutter", "canon_get_capture_result",
   "canon_process_events"}

NextCapture ==
  \E t \in Threads :
       \/ \E o \in CaptureCommands : Invoke(t, o)
       \/ canon_initialize(t)
       \/ canon_connect(t)
       \/ canon_open_session(t)
       \/ canon_take_picture(t)
       \/ GetCaptureResult(t)
       \/ canon_process_events(t)
       \/ canon_send_shutter(t)

SpecCapture == Init /\ [][NextCapture]_vars

\* The session workload: the host first brings the camera up, one command
\* after the other (each may fail), then works with it: pictures, blocking or
\* polled, and recordings.
BootOrder == <<"canon_initialize", "canon_connect", "canon_open_session">>

\* The live view and property commands.
ViewCommands ==
  {"canon_start_live_view", "canon_stop_live_view", "canon_get_property",
   "canon_set_property", "canon_get_live_view_frame"}

SessionCommands ==
  (Commands \ {"canon_initialize", "canon_connect",
               "canon_open_session", "canon_close_session",
               "canon_terminate"}) \ ViewCommands

Boot(t) ==
  /\ hist.calls < Len(BootOrder)
  /\ \A u \in Threads : pc[u] = "idle"
  /\ Invoke(t, BootOrder[hist.calls + 1])

Work(t) ==
  /\ hist.calls >= Len(BootOrder)
  /\ hist.calls < Len(BootOrder) + MaxWork
  /\ \E o \in SessionCommands : Invoke(t, o)

NextSession ==
  \E t \in Threads :
       \/ Boot(t)
       \/ Work(t)
       \/ canon_initialize(t)
       \/ canon_connect(t)
       \/ canon_open_session(t)
       \/ canon_take_picture(t)
       \/ GetCaptureResult(t)
       \/ canon_process_events(t)
       \/ canon_send_shutter(t)
       \/ canon_start_movie_record(t)
       \/ canon_stop_movie_record(t)
       \/ canon_stop_movie_record_fast(t)
       \/ canon_finalize_movie_download(t)
       \/ canon_take_photo_during_recording(t)

SpecSession == Init /\ [][NextSession]_vars

\* The lifecycle workload: the host brings the SDK and the camera up and down
\* in any order on two threads and pumps events, which is when the device's
\* shutdown notification arrives.
LifecycleCommands ==
  {"canon_initialize", "canon_connect", "canon_open_session",
   "canon_close_session", "canon_terminate", "canon_process_events"}

NextLifecycle ==
  \E t \in Threads :
       \/ \E o \in LifecycleCommands : Invoke(t, o)
       \/ canon_initialize(t)
       \/ canon_connect(t)
       \/ canon_open_session(t)
       \/ canon_close_session(t)
       \/ canon_terminate(t)
       \/ canon_process_events(t)

SpecLifecycle == Init /\ [][NextLifecycle]_vars

\* The mixed workload: after the bring-up the host issues any two commands,
\* on one thread or on both at once. Each thread that can take a step takes
\* one in the end: the commands run on the threads of the host's pool.
Busy(t) ==
  /\ hist.calls >= Len(BootOrder)
  /\ hist.calls < Len(BootOrder) + MaxWork
  /\ \E o \in Commands : Invoke(t, o)

Run(t) ==
  \/ canon_initialize(t)
  \/ canon_connect(t)
  \/ canon_open_session(t)
  \/ canon_take_picture(t)
  \/ GetCaptureResult(t)
  \/ canon_process_events(t)
  \/ canon_send_shutter(t)
  \/ canon_close_session(t)
  \/ canon_terminate(t)
  \/ canon_start_movie_record(t)
  \/ canon_stop_movie_record(t)
  \/ canon_stop_movie_record_fast(t)
  \/ canon_finalize_movie_download(t)
  \/ canon_take_photo_during_recording(t)
  \/ canon_property(t)
  \/ canon_get_live_view_frame(t)

NextLocks == \E t \in Threads : Boot(t) \/ Busy(t) \/ Run(t)

SpecLocks ==
  Init /\ [][NextLocks]_vars /\ \A t \in Threads : WF_vars(Run(t))

\* The movie workload: after the bring-up the host records, stops without
\* waiting and fetches the movie, one command after the other. A command that
\* has been dispatched runs to its end.
MovieOrder ==
  BootOrder \o <<"canon_start_movie_record", "canon_stop_movie_record_fast",
                 "canon_finalize_movie_download">>

Script(t) ==
  /\ hist.calls < Len(MovieOrder)
  /\ \A u \in Threads : pc[u] = "idle"
  /\ Invoke(t, MovieOrder[hist.calls + 1])

RunMovie ==
  \E t \in Threads :
       \/ canon_initialize(t)
       \/ canon_connect(t)
       \/ canon_open_session(t)
       \/ canon_start_movie_record(t)
       \/ canon_stop_movie_record_fast(t)
       \/ canon_finalize_movie_download(t)

NextMovie == (\E t \in Threads : Script(t)) \/ RunMovie

SpecMovie == Init /\ [][NextMovie]_vars /\ WF_vars(RunMovie)

\* The blocking workload: after the bring-up the host records and runs the
\* flows that wait for the camera, on one thread or on both at once. The
\* clock of a wait loop advances and a thread that can take a step takes one
\* in the end.
BlockingCommands ==
  {"canon_take_picture", "canon_stop_movie_record",
   "canon_finalize_movie_download", "canon_take_photo_during_recording"}

Block(t) ==
  /\ hist.calls >= Len(BootOrder)
  /\ hist.calls < Len(BootOrder) + MaxWork
  /\ \E o \in BlockingCommands \cup {"canon_start_movie_record"} : Invoke(t, o)

RunBlocking(t) ==
  \/ canon_initialize(t)
  \/ canon_connect(t)
  \/ canon_open_session(t)
  \/ canon_take_picture(t)
  \/ canon_start_movie_record(t)
  \/ canon_stop_movie_record(t)
  \/ canon_stop_movie_record_fast(t)
  \/ canon_finalize_movie_download(t)
  \/ canon_take_photo_during_recording(t)

NextBlocking == \E t \in Threads : Boot(t) \/ Block(t) \/ RunBlocking(t)

SpecBlocking ==
  Init /\ [][NextBlocking]_vars /\ \A t \in Threads : WF_vars(RunBlocking(t))

\* The recording workload: the host brings the camera up and starts a
\* recording, one command after the other (each may fail), then stops, fetches
\* the movie, starts again and shuts the SDK down, on one thread or on both at
\* once.
RecordOrder == BootOrder \o <<"canon_start_movie_record">>

RecordingCommands ==
  {"canon_start_movie_record", "canon_stop_movie_record",
   "canon_stop_movie_record_fast", "canon_finalize_movie_download",
   "canon_terminate"}

Setup(t) ==
  /\ hist.calls < Len(RecordOrder)
  /\ \A u \in Threads : pc[u] = "idle"
  /\ Invoke(t, RecordOrder[hist.calls + 1])

Record(t) ==
  /\ hist.calls >= Len(RecordOrder)
  /\ hist.calls < Len(RecordOrder) + MaxWork
  /\ \E o \in RecordingCommands : Invoke(t, o)

NextRecording ==
  \E t \in Threads :
       \/ Setup(t)
       \/ Record(t)
       \/ canon_initialize(t)
       \/ canon_connect(t)
       \/ canon_open_session(t)
       \/ canon_start_movie_record(t)
       \/ canon_stop_movie_record(t)
       \/ canon_stop_movie_record_fast(t)
       \/ canon_finalize_movie_download(t)
       \/ canon_close_session(t)
       \/ canon_terminate(t)

SpecRecording == Init /\ [][NextRecording]_vars

\* The view workload: after the bring-up the host polls on two threads, any
\* two of the event pump, the frame grab and the live view and property
\* commands, which hold the manager lock over their SDK call.
ViewWork(t) ==
  /\ hist.calls >= Len(BootOrder)
  /\ hist.calls < Len(BootOrder) + MaxWork
  /\ \E o \in ViewCommands \cup {"canon_process_events"} : Invoke(t, o)

NextView ==
  \E t \in Threads :
       \/ Boot(t)
       \/ ViewWork(t)
       \/ canon_initialize(t)
       \/ canon_connect(t)
       \/ canon_open_session(t)
       \/ canon_process_events(t)
       \/ canon_property(t)
       \/ canon_get_live_view_frame(t)

SpecView == Init /\ [][NextView]_vars

\* The registry workload: after the bring-up the host issues any two of the
\* commands that write the registry, and of the blocking capture, in whose
\* pump the device's shutdown notification finds the lock free.
RegistryCommands ==
  {"canon_initialize", "canon_connect", "canon_open_session",
   "canon_close_session", "canon_terminate", "canon_take_picture"}

RegistryWork(t) ==
  /\ hist.calls >= Len(BootOrder)
  /\ hist.calls < Len(BootOrder) + MaxWork
  /\ \E o \in RegistryCommands : Invoke(t, o)

NextRegistry ==
  \E t \in Threads :
       \/ Boot(t)
       \/ RegistryWork(t)
       \/ canon_initialize(t)
       \/ canon_connect(t)
       \/ canon_open_session(t)
       \/ canon_close_session(t)
       \/ canon_terminate(t)
       \/ canon_take_picture(t)

SpecRegistry == Init /\ [][NextRegistry]_vars

\* The callback on its own: object_event_handler is called with any
\* notification in any state of CAPTURE_DATA, MOVIE_DATA and
\* IS_MOVIE_RECORDING that the commands leave behind, on a camera that is
\* connected with its session open (IS_MOVIE_RECORDING is true only after a
\* canon_start_movie_record has created MOVIE_DATA).  After a call `res`
\* names the notification the callback has returned from and the EdsError it
\* returned.
CaptureRecords ==
  {CaptureDataDefault} \cup
  {r \in [exists : {TRUE}, image_data : 0..MaxShots,
          capture_complete : BOOLEAN,
          capture_error : {NoError, "Download failed"}] :
     ~r.capture_complete => r.image_data = NoImage /\ r.capture_error = NoError}

MovieRecords ==
  {MovieDataDefault} \cup
  {r \in [exists : {TRUE}, movie_path : {NoPath, "movie"},
          download_complete : BOOLEAN,
          download_error : {NoError, "Movie download failed"}] :
     /\ ~r.download_complete => r.movie_path = NoPath /\ r.download_error = NoError
     /\ r.movie_path # NoPath => r.download_error = NoError}

Notifications ==
  {Event(k, ok, id) :
     k \in {"DirItemRequestTransfer", "DirItemCreated", "Other"},
     ok \in BOOLEAN, id \in 1..MaxShots}

InitCallback ==
  /\ sdkInit = TRUE
  /\ mgr = [exists |-> TRUE, camera_ref |-> 1, session_open |-> TRUE,
            event_handler_registered |-> TRUE,
            state_event_handler_registered |-> TRUE]
  /\ mgrLock = NoThread
  /\ cd \in CaptureRecords
  /\ md \in MovieRecords
  /\ isCapturing \in BOOLEAN
  /\ isRecording \in {r \in BOOLEAN : r => md.exists}
  /\ cam = [CameraDefault EXCEPT !.connects = 1, !.loaded = TRUE, !.held = {1},
                                 !.inits = 1, !.handlers = {1},
                                 !.saveTo = "host"]
  /\ pc = [t \in Threads |-> "idle"]
  /\ cont = [t \in Threads |-> ""]
  /\ op = [t \in Threads |-> ""]
  /\ res = NoReturn
  /\ loc = [t \in Threads |-> LocalsDefault]
  /\ hist = [delivered |-> [i \in 1..MaxShots |-> 0], calls |-> 0]
  /\ sm = ShutdownManagerNew

Notify(e) ==
  LET s == ObjectEventHandler([cd |-> cd, md |-> md, mgr |-> mgr], e,
                              isRecording)
  IN /\ cd' = s.cd
     /\ md' = s.md
     /\ res' = [op |-> e.kind, val |-> OkVal("EDS_ERR_OK")]
     /\ UNCHANGED <<sdkInit, mgr, mgrLock, isCapturing, isRecording, cam, pc,
                    cont, op, loc, hist, sm>>

NextCallback == \E e \in Notifications : Notify(e)

SpecCallback == InitCallback /\ [][NextCallback]_vars

\* ------------------------------------------------------ ShutdownManager
\* The commands of shutdown.rs run on the host's threads like the camera
\* commands; the countdown and the OS shutdown run in spawned tasks.  A
\* section under the state mutex is one step.
DEFAULT_COUNTDOWN_MINUTES == 2
SecondsOf(minutes) == minutes * 60
Tasks == 1..MaxTasks

ShutdownEntry ==
  [start_shutdown_countdown |-> "sc", cancel_shutdown |-> "cx",
   notify_user_activity |-> "ua", start_transaction |-> "st_store",
   end_transaction |-> "et_store", execute_shutdown_now |-> "ei_load"]

\* The host dispatches the shutdown command o to thread t (none once the
\* machine is going down).
InvokeShutdown(t, o) ==
  /\ FirstIdle(t)
  /\ hist.calls < MaxShutdownCalls
  /\ ~sm.executed
  /\ hist' = [hist EXCEPT !.calls = @ + 1]
  /\ pc' = Set(pc, t, ShutdownEntry[o])
  /\ op' = Set(op, t, o)
  /\ res' = NoReturn
  /\ UNCHANGED <<gvars, cont, loc, sm>>

\* Thread t goes on at p, or (p = "idle") its command returns (); the
\* manager becomes m.
ShutdownStep(t, p, m) ==
  /\ sm' = m
  /\ pc' = Set(pc, t, p)
  /\ res' = IF p = "idle" THEN [op |-> op[t], val |-> OkVal("()")] ELSE NoReturn
  /\ op' = IF p = "idle" THEN Set(op, t, "") ELSE op
  /\ UNCHANGED <<gvars, cont, loc, hist>>

\* cancel_countdown_timer: countdown_running = false and notify_waiters(),
\* which ends the tasks that wait in their select!.
CancelCountdownTimer(m) ==
  IF m.countdown_running
  THEN [m EXCEPT !.countdown_running = FALSE,
                 !.tasks = [i \in Tasks |->
                              IF m.tasks[i] = "sleep" THEN "free" ELSE m.tasks[i]]]
  ELSE m

\* tauri::async_runtime::spawn of a task that starts at position p.
Spawn(m, p) ==
  LET i == CHOOSE j \in Tasks :
             m.tasks[j] = "free" /\ \A k \in Tasks : m.tasks[k] = "free" => j <= k
  IN [m EXCEPT !.tasks[i] = p]
CanSpawn(m) == \E i \in Tasks : m.tasks[i] = "free"

\* start_countdown_timer
StartCountdownTimer(m) ==
  Spawn([CancelCountdownTimer(m) EXCEPT !.countdown_running = TRUE], "sleep")

\* start_countdown(minutes, reason)
StartCountdown(t) ==
  /\ pc[t] = "sc"
  /\ \E minutes \in {0, DEFAULT_COUNTDOWN_MINUTES}, reason \in {"manual", "timer"} :
       LET st == [is_scheduled |-> TRUE, is_paused |-> sm.is_in_transaction,
                  remaining_seconds |-> SecondsOf(minutes),
                  total_seconds |-> SecondsOf(minutes), reason |-> reason]
           m == [CancelCountdownTimer(sm) EXCEPT !.state = st]
       IN IF sm.is_in_transaction
          THEN ShutdownStep(t, "idle", m)
          ELSE CanSpawn(m) /\ ShutdownStep(t, "idle", StartCountdownTimer(m))

\* cancel_shutdown
CancelShutdown(t) ==
  /\ pc[t] = "cx"
  /\ ShutdownStep(t, "idle",
                  [CancelCountdownTimer(sm) EXCEPT !.state = ShutdownStateDefault])

\* on_user_activity
OnUserActivity(t) ==
  /\ pc[t] = "ua"
  /\ ShutdownStep(t, "idle",
       IF ~sm.state.is_scheduled \/ sm.state.is_paused THEN sm
       ELSE [sm EXCEPT !.state.remaining_seconds = sm.state.total_seconds])

\* start_transaction: is_in_transaction.store(true), then under the state
\* mutex the pause and cancel_countdown_timer.
StartTransaction(t) ==
  \/ /\ pc[t] = "st_store"
     /\ ShutdownStep(t, "st_lock", [sm EXCEPT !.is_in_transaction = TRUE])
  \/ /\ pc[t] = "st_lock"
     /\ ShutdownStep(t, "idle",
          IF sm.state.is_scheduled
          THEN CancelCountdownTimer([sm EXCEPT !.state.is_paused = TRUE])
          ELSE sm)

\* end_transaction: is_in_transaction.store(false), then the reset of the
\* countdown and start_countdown_timer.
EndTransaction(t) ==
  \/ /\ pc[t] = "et_store"
     /\ ShutdownStep(t, "et_lock", [sm EXCEPT !.is_in_transaction = FALSE])
  \/ /\ pc[t] = "et_lock"
     /\ IF sm.state.is_scheduled
        THEN LET m == [sm EXCEPT
                        !.state.is_paused = FALSE,
                        !.state.remaining_seconds = SecondsOf(DEFAULT_COUNTDOWN_MINUTES),
                        !.state.total_seconds = SecondsOf(DEFAULT_COUNTDOWN_MINUTES)]
             IN CanSpawn(CancelCountdownTimer(m))
                /\ ShutdownStep(t, "idle", StartCountdownTimer(m))
        ELSE ShutdownStep(t, "idle", sm)

\* execute_immediate_shutdown: the load of is_in_transaction, then the
\* deferral or execute_shutdown, which spawns execute_os_shutdown.
ExecuteImmediateShutdown(t) ==
  \/ /\ pc[t] = "ei_load"
     /\ IF sm.is_in_transaction
        THEN ShutdownStep(t, "idle",
               [sm EXCEPT !.state = [is_scheduled |-> TRUE, is_paused |-> TRUE,
                                     remaining_seconds |-> 0, total_seconds |-> 0,
                                     reason |-> "timer"]])
        ELSE ShutdownStep(t, "ei_exec", sm)
  \/ /\ pc[t] = "ei_exec"
     /\ CanSpawn(CancelCountdownTimer(sm))
     /\ ShutdownStep(t, "idle", Spawn(CancelCountdownTimer(sm), "os_sleep"))

\* Task i becomes as and the manager m; the threads stand still.
TaskStep(i, as, m) ==
  /\ sm' = [m EXCEPT !.tasks[i] = as]
  /\ res' = NoReturn
  /\ UNCHANGED <<gvars, pc, cont, op, loc, hist>>

\* The countdown task: the sleep of one second in select!, the check of
\* countdown_running, the tick under the state mutex, and at zero the store
\* to countdown_running and the check of is_in_transaction: deferral, or
\* execute_os_shutdown.
CountdownTask(i) ==
  \/ /\ sm.tasks[i] = "sleep"
     /\ TaskStep(i, "awake", sm)
  \/ /\ sm.tasks[i] = "awake"
     /\ TaskStep(i, IF sm.countdown_running THEN "tick" ELSE "free", sm)
  \/ /\ sm.tasks[i] = "tick"
     /\ IF ~sm.state.is_scheduled
        THEN TaskStep(i, "free", [sm EXCEPT !.countdown_running = FALSE])
        ELSE IF sm.state.is_paused
        THEN TaskStep(i, "sleep", sm)
        ELSE LET left == IF sm.state.remaining_seconds > 0
                         THEN sm.state.remaining_seconds - 1 ELSE 0
             IN TaskStep(i, IF left = 0 THEN "zero" ELSE "sleep",
                         [sm EXCEPT !.state.remaining_seconds = left])
  \/ /\ sm.tasks[i] = "zero"
     /\ LET m == [sm EXCEPT !.countdown_running = FALSE]
        IN IF sm.is_in_transaction
           THEN TaskStep(i, "free", [m EXCEPT !.state.is_paused = TRUE])
           ELSE TaskStep(i, "os_sleep", m)

\* execute_os_shutdown: the sleep of POST_DESTROY_DELAY_SECONDS, then the
\* shutdown command of the OS.
ExecuteOsShutdown(i) ==
  /\ sm.tasks[i] = "os_sleep"
  /\ TaskStep(i, "free", [sm EXCEPT !.executed = TRUE])

NextShutdown ==
  \/ \E t \in Threads :
        \/ \E o \in DOMAIN ShutdownEntry : InvokeShutdown(t, o)
        \/ StartCountdown(t)
        \/ CancelShutdown(t)
        \/ OnUserActivity(t)
        \/ StartTransaction(t)
        \/ EndTransaction(t)
        \/ ExecuteImmediateShutdown(t)
  \/ \E i \in Tasks : CountdownTask(i) \/ ExecuteOsShutdown(i)

SpecShutdown == Init /\ [][NextShutdown]_vars

\* ------------------------------------------------------------- claims
TakePicture == "canon_take_picture"
TakePhotoDuringRecording == "canon_take_photo_during_recording"
GetCaptureResultCmd == "canon_get_capture_result"

\* canon_take_picture between EdsSendCommand(TakePicture) and its read of the
\* result.
PumpPhase == {"tp_loop", "tp_check", "tp_drain"}
\* The pump loops of the two capture flows.
CaptureLoops == {"tp_loop", "tp_check", "pd_loop", "pd_check"}

AlreadyInProgress == Fail("Capture already in progress")
CaptureTimeout == Fail("Capture timeout - no image received")
NoCaptureInProgress == Fail("No capture in progress")

\* The step taken returned r from command o.
Returned(o, r) == res = [op |-> o, val |-> r]

\* Thread t takes a step of its own.
Steps(t) == pc'[t] # pc[t]

C1_OnePumpLoop == Cardinality({t \in Threads : pc[t] \in PumpPhase}) <= 1

C1_RejectedAtOnce ==
  \A t \in Threads :
    (pc[t] = "tp_cas" /\ isCapturing /\ Steps(t)) =>
       /\ pc'[t] = "idle"
       /\ res' = [op |-> TakePicture, val |-> AlreadyInProgress]
       /\ ~loc[t].native
       /\ UNCHANGED <<cd, cam, mgr, isCapturing>>

\* C1: of the canon_take_picture calls running concurrently at most one is
\* between sending the take-picture command and reading the result; a call
\* that finds IS_CAPTURING set returns "Capture already in progress" in that
\* very step, having made no SDK call, and leaves the capture record, the
\* camera and the flag as they were.
C1_SingleFlight == []C1_OnePumpLoop /\ [][C1_RejectedAtOnce]_vars

\* One call is in its pump loop while the other has just been rejected.
C1_Witness ==
  /\ Returned(TakePicture, AlreadyInProgress)
  /\ \E t \in Threads : pc[t] \in {"tp_loop", "tp_check"}

\* Thread t executes a command that takes the capture guard.
Initiating(t) == op[t] \in {TakePicture, TakePhotoDuringRecording}

\* C2: in every state in which neither canon_take_picture nor
\* canon_take_photo_during_recording is executing, IS_CAPTURING is false.
C2_GuardReleased == (\A t \in Threads : ~Initiating(t)) => ~isCapturing

\* A photo taken during a recording has just been returned and nothing runs.
C2_Witness ==
  /\ res.op = TakePhotoDuringRecording
  /\ res.val.success
  /\ \A t \in Threads : pc[t] = "idle"

SendFailures ==
  {Fail("Take picture failed: Device busy"),
   Fail("Take picture failed: Auto-focus failed"),
   Fail("Take picture failed: Unknown error")}

C3_SendFailureStep ==
  \A t \in Threads :
    (pc[t] = "tp_send" /\ Steps(t) /\ pc'[t] # "tp_loop") =>
       /\ pc'[t] = "idle"
       /\ res'.val \in SendFailures
       /\ loc[t].n = 0
       /\ ~isCapturing'

\* C3: when EdsSendCommand(TakePicture) fails, canon_take_picture returns
\* success:false with "Take picture failed: " and the translated code, having
\* pumped no event, and IS_CAPTURING is false when it returns, so that the next
\* canon_take_picture passes the compare-and-swap.
C3_SendFailure == [][C3_SendFailureStep]_vars

\* A failed send has just been reported and the flag is free.
C3_Witness ==
  /\ Returned(TakePicture, Fail("Take picture failed: Device busy"))
  /\ ~isCapturing

\* A result that ends a capture: an image or a recorded error.
Terminal(r) == r.success \/ r.error \notin {NoError, NoCaptureInProgress.error}

\* C4: once canon_get_capture_result has returned the terminal result, and
\* with no other command running, a second call returns "No capture in
\* progress".
C4_SecondPollNoCapture ==
  (/\ res.op = GetCaptureResultCmd
   /\ Terminal(res.val)
   /\ \A t \in Threads : pc[t] = "idle") => PollResult = NoCaptureInProgress

\* C5: at most one call is in a capture pump loop at a time, and IS_CAPTURING
\* stays set for as long as a call holds its guard.
C5_SingleFlight ==
  /\ Cardinality({t \in Threads : pc[t] \in CaptureLoops}) <= 1
  /\ \A t \in Threads : loc[t].guard => isCapturing

C6_NotInitializedStep ==
  \A t \in Threads :
    (pc[t] = "tp_init" /\ op[t] = TakePicture /\ ~sdkInit /\ Steps(t)) =>
       /\ pc'[t] = "idle"
       /\ res' = [op |-> TakePicture, val |-> Fail("SDK not initialized")]
       /\ ~loc[t].native
       /\ UNCHANGED <<cd, cam, mgr, mgrLock, isCapturing>>

\* C6: with SDK_INITIALIZED false, canon_take_picture returns success:false
\* "SDK not initialized" in its first step: no native call, no change of
\* IS_CAPTURING, no change of the capture record.
C6_NotInitialized == [][C6_NotInitializedStep]_vars

\* The SDK was initialised and terminated, or never initialised, and the call
\* has just been refused.
C6_Witness == Returned(TakePicture, Fail("SDK not initialized")) /\ ~sdkInit

C7_TimeoutStep ==
  \A t \in Threads :
    (pc[t] = "tp_drain" /\ op[t] = TakePicture /\ ~loc[t].sawPop /\ Steps(t)) =>
       /\ loc[t].n = MaxPumps
       /\ res' = [op |-> TakePicture, val |-> CaptureTimeout]

\* C7: a canon_take_picture whose command was sent and for which the object
\* callback stored nothing in the capture record until the result is read has
\* waited out the timeout and returns success:false "Capture timeout - no image
\* received", not the generic Err.
C7_Timeout == [][C7_TimeoutStep]_vars

\* The timeout has just been reported.
C7_Witness == Returned(TakePicture, CaptureTimeout) /\ ~CaptureTimeout.generic

\* C8: capture_complete implies that exactly one of image_data and
\* capture_error is set.
C8_ExactlyOne ==
  cd.capture_complete => ((cd.image_data # NoImage) # (cd.capture_error # NoError))

\* C9: no image is returned to more than one caller, and the image a call has
\* just returned is no longer in the capture record.
C9_AtMostOnce ==
  /\ \A i \in 1..MaxShots : hist.delivered[i] <= 1
  /\ res.val.image_data # NoImage => cd.image_data # res.val.image_data

\* A poll has just returned an image while a blocking capture waits for it.
C9_Witness ==
  /\ res.op = GetCaptureResultCmd
  /\ res.val.success
  /\ hist.delivered[res.val.image_data] = 1
  /\ \E t \in Threads : pc[t] \in PumpPhase

FinalizeMovieDownload == "canon_finalize_movie_download"

C10_Left ==
  /\ ~isRecording
  /\ mgr.camera_ref # NoRef => cam.saveTo = "host"

\* C10: in start, stop-fast, finalize, the finalize step returns in the end; it
\* returns the movie path, the recorded download error or the timeout error,
\* with IS_MOVIE_RECORDING false and, where a camera is connected, host as the
\* last save destination written.
C10_Finalize ==
  /\ [](res.op = FinalizeMovieDownload =>
          /\ res.val \in {OkVal("movie"), ErrVal("Movie download failed"), TimeoutErr}
          /\ C10_Left)
  /\ ((\E t \in Threads : op[t] = FinalizeMovieDownload)
        ~> (res.op = FinalizeMovieDownload))

\* The recording was started and stopped, and the fetch has just returned the
\* download error the callback recorded.
C10_Witness ==
  /\ res = [op |-> FinalizeMovieDownload, val |-> ErrVal("Movie download failed")]
  /\ cam.saveTo = "host"
  /\ mgr.camera_ref # NoRef

\* C10 as stated: the fetch returns a path or the timeout error only.
C10_PathOrTimeout ==
  res.op = FinalizeMovieDownload =>
     /\ res.val \in {OkVal("movie"), TimeoutErr}
     /\ C10_Left

StopMovieRecord == "canon_stop_movie_record"

\* C11: a canon_stop_movie_record that found IS_MOVIE_RECORDING true leaves it
\* false when it returns, whatever it returns.
C11_RecordingCleared ==
  [][\A t \in Threads :
       (op[t] = StopMovieRecord /\ pc[t] # "sm_rec" /\ pc'[t] = "idle")
         => ~isRecording']_vars

\* Every result canon_take_picture has a return statement for.
TakePictureResults ==
  {Fail("SDK not initialized"), AlreadyInProgress, Fail("No camera connected"),
   Fail("Session not open"), Fail("Failed to register event handler"),
   CaptureTimeout, Fail("Download failed")}
  \cup SendFailures
  \cup {CaptureResult(TRUE, NoError, i) : i \in 1..MaxShots}

TakePicturePositions ==
  {"tp_init", "tp_cas", "tp_lock", "tp_locked", "tp_reset", "tp_saveto",
   "tp_send", "tp_loop", "tp_check", "tp_drain"}
StopFastPositions == {"sf_rec", "sf_lock", "sf_reset", "sf_stop", "sf_saveto"}

C12_FallbackStep(t) ==
  (op[t] = TakePhotoDuringRecording /\ Steps(t)) =>
     /\ pc[t] = "pd_fb_drop" => pc'[t] = "pd_fb_store" /\ res' = NoReturn
     /\ pc[t] = "pd_fb_store" => pc'[t] = "sf_rec" /\ cont'[t] = "tp_init"
     /\ pc[t] \in StopFastPositions =>
           /\ pc'[t] \in StopFastPositions \cup {"tp_init"}
           /\ res' = NoReturn
     /\ pc[t] \in TakePicturePositions =>
           /\ cont[t] = ""
           /\ IF pc'[t] = "idle"
              THEN res'.op = TakePhotoDuringRecording
                   /\ res'.val \in TakePictureResults
              ELSE pc'[t] \in TakePicturePositions /\ res' = NoReturn

\* C12: after a failed shutter press canon_take_photo_during_recording
\* releases the shutter, runs canon_stop_movie_record_fast to its end
\* (whatever it returns) and then canon_take_picture, and what the command
\* returns is the return of that canon_take_picture: one of the results
\* canon_take_picture has, and a result of canon_take_picture itself is in
\* the same set.
C12_Fallback ==
  [][\A t \in Threads :
       /\ C12_FallbackStep(t)
       /\ (op[t] = TakePicture /\ pc'[t] = "idle")
            => res'.val \in TakePictureResults]_vars

\* The press failed in the only two commands issued after the bring-up, the
\* fast stop has restored the save destination, and the capture of the
\* fallback has passed its checks.
C12_Witness ==
  \E t \in Threads :
     /\ op[t] = TakePhotoDuringRecording
     /\ pc[t] = "tp_reset"
     /\ cam.saveTo = "host"
     /\ ~cam.recording
     /\ hist.calls = Len(BootOrder) + 2

SendShutter == "canon_send_shutter"

\* C13: a canon_send_shutter that finds IS_CAPTURING true returns 'Capture
\* already in progress' in that step, CAPTURE_DATA and the camera untouched.
C13_SendShutterGuarded ==
  [][\A t \in Threads :
       (op[t] = SendShutter /\ isCapturing /\ Steps(t))
         => /\ res' = [op |-> SendShutter, val |-> AlreadyInProgress]
            /\ cd' = cd
            /\ cam' = cam]_vars

\* The commands that operate the device.
DeviceOperations ==
  Commands \ {"canon_initialize", "canon_terminate", "canon_close_session",
              "canon_get_capture_result"}

\* C14: no device operation makes its first native SDK call in a state where
\* SDK_INITIALIZED is false.
C14_FailFast ==
  [][\A t \in Threads :
       (op[t] \in DeviceOperations /\ ~sdkInit /\ ~loc[t].native /\ Steps(t))
         => ~loc'[t].native]_vars

\* The step thread t is about to take sends a command to the device handle
\* or sets a property on it.
SendsToDevice(t) ==
  \/ pc[t] \in {"tp_saveto", "tp_send", "ss_send", "sr_saveto", "sr_begin",
                "sm_stop", "sm_restore", "sf_stop", "sf_saveto", "pd_saveto",
                "pd_press", "pd_fb_drop", "pd_release", "pd_stop", "pd_leave",
                "pd_fb2_store"}
  \/ pc[t] = "fm_restore" /\ mgr.camera_ref # NoRef

\* C15: every command sent and every property set is sent or set in a state
\* where the registry has session_open true.
C15_SessionGate ==
  [][\A t \in Threads : (SendsToDevice(t) /\ Steps(t)) => mgr.session_open]_vars

\* C16: every handle that was obtained and is not released is the one in the
\* registry.
C16_OneLiveHandle == cam.held \subseteq {mgr.camera_ref}

Terminate == "canon_terminate"

\* C17: when canon_terminate has just returned success, the registry holds no
\* handle, session_open is false and the SDK is not initialised.
C17_TerminateReleases ==
  Returned(Terminate, OkVal("true")) =>
     /\ mgr.camera_ref = NoRef
     /\ ~mgr.session_open
     /\ ~sdkInit

CloseSessionCmd == "canon_close_session"

C18_CloseStep(t) ==
  (pc[t] = "cs_locked" /\ Steps(t)) =>
     /\ cont[t] = "" => res' = [op |-> CloseSessionCmd, val |-> OkVal("true")]
     /\ IF mgr.session_open
        THEN /\ mgr'.camera_ref = NoRef
             /\ ~mgr'.session_open
             /\ ~mgr'.event_handler_registered
             /\ ~mgr'.state_event_handler_registered
             /\ mgr.camera_ref \notin cam'.held
        ELSE mgr' = mgr /\ cam' = cam
     /\ CloseSession(mgr') = mgr'

\* C18: the locked block of canon_close_session returns success; with the
\* session open it leaves the registry without handle, the handle released and
\* session_open and the two registration flags false; with the session
\* closed it changes neither the registry nor the device; and a second close
\* applied to the registry it leaves changes nothing.
C18_CloseSession == [][\A t \in Threads : C18_CloseStep(t)]_vars

\* Four commands were issued, one handle was obtained, the device is up, and
\* canon_close_session has just returned with the handle released.
C18_Witness ==
  /\ Returned(CloseSessionCmd, OkVal("true"))
  /\ hist.calls = 4
  /\ cam.connects = 1
  /\ cam.held = {}
  /\ mgr.camera_ref = NoRef
  /\ ~cam.down

\* The positions at which a thread waits for CAMERA_MANAGER with lock().
LockWaits ==
  {"tp_lock", "prop_lock", "cn_lock", "os_lock", "ss_lock", "cs_lock",
   "sr_lock", "sm_lock", "sf_lock", "fm_lock", "pd_lock"}

\* The positions at which a thread holds CAMERA_MANAGER.
LockedPositions ==
  {"tp_locked", "prop_locked", "lv_locked", "lv_frame", "cn_locked",
   "os_locked", "ss_locked", "cs_locked", "sr_locked", "fm_restore"}

\* C19: the thread that holds the device lock is at a step that waits for
\* nothing and releases it; a pump made with the lock held leaves the
\* registry alone (the state callback finds the lock taken and returns); and
\* every thread that waits for the lock gets past the wait, and every command
\* returns.
C19_NoDeadlock ==
  /\ [](\A t \in Threads :
          /\ mgrLock = t <=> pc[t] \in LockedPositions
          /\ pc[t] \in LockedPositions => ENABLED Run(t))
  /\ [][\A t \in Threads :
          (pc[t] = "lv_locked" /\ Steps(t)) => mgr' = mgr]_vars
  /\ \A t \in Threads :
        /\ (pc[t] \in LockWaits) ~> (pc[t] \notin LockWaits)
        /\ (pc[t] # "idle") ~> (pc[t] = "idle")

\* One thread waits for the device lock while the other holds it.
C19_Witness ==
  \E t, u \in Threads :
     /\ pc[t] \in LockWaits
     /\ mgrLock = u
     /\ u # t

\* C20: every command sent to the device handle and every property set on it
\* is sent or set by a thread that holds the device lock.
C20_UnderLock ==
  [][\A t \in Threads : (SendsToDevice(t) /\ Steps(t)) => mgrLock = t]_vars

\* C21: canon_process_events makes its EdsGetEvent call in no state in which
\* another thread is in the pump loop of a capture.
C21_NoPumpRace ==
  [][\A t \in Threads :
       (pc[t] = "pe_pump" /\ mgr.exists /\ mgrLock = NoThread /\ Steps(t))
         => \A u \in Threads \ {t} : pc[u] \notin CaptureLoops]_vars

\* What canon_stop_movie_record returns.
StopMovieResults ==
  {ErrVal("Not currently recording"), ErrVal("Camera manager not initialized"),
   ErrVal("No camera connected"), OkVal("movie"), ErrVal("Movie download failed"),
   ErrVal("Movie download timeout - no file received from camera")}

\* What each blocking flow returns: success, a recorded error or the timeout.
BlockingResults ==
  [canon_take_picture |-> TakePictureResults,
   canon_take_photo_during_recording |->
      TakePictureResults \cup {ErrVal("No camera connected")},
   canon_stop_movie_record |-> StopMovieResults,
   canon_finalize_movie_download |->
      {OkVal("movie"), ErrVal("Movie download failed"), TimeoutErr}]

\* C22: every call of canon_take_picture, canon_stop_movie_record,
\* canon_finalize_movie_download and canon_take_photo_during_recording
\* returns in the end, and what it returns is a success, a recorded error or
\* the timeout of the flow, also when no callback ever runs.
C22_Terminates ==
  /\ [](res.op \in BlockingCommands => res.val \in BlockingResults[res.op])
  /\ \A t \in Threads : \A o \in BlockingCommands : (op[t] = o) ~> (op[t] = "")

\* The photo during the recording has just timed out twice, in its own wait
\* and in the capture it fell back to, the camera still owing both transfer
\* requests: no callback ran.
C22_Witness ==
  /\ Returned(TakePhotoDuringRecording, CaptureTimeout)
  /\ cam.owed = 2
  /\ cam.recording = FALSE
  /\ cd.exists /\ ~cd.capture_complete

\* The positions at which a command checks camera_ref.
HandleChecks ==
  {"tp_locked", "ss_locked", "sr_locked", "prop_locked", "os_locked",
   "lv_locked", "sm_lock", "sf_lock", "pd_lock"}

C23_ShutdownStep(t) ==
  /\ (Steps(t) /\ ~cam.down /\ cam'.down) =>
        IF mgrLock = NoThread /\ pc[t] # "pe_pump"
        THEN /\ mgr'.camera_ref = NoRef
             /\ ~mgr'.session_open
             /\ ~mgr'.event_handler_registered
             /\ ~mgr'.state_event_handler_registered
             /\ mgr.camera_ref \notin cam'.held
             /\ ~IsConnected(mgr')
        ELSE mgr' = mgr /\ cam'.held = cam.held
  /\ (/\ pc[t] \in HandleChecks /\ cont[t] = "" /\ Steps(t)
      /\ cam.down /\ mgr.exists /\ mgr.camera_ref = NoRef) =>
        /\ pc'[t] = "idle"
        /\ ~res'.val.success
        /\ res'.val.error = "No camera connected"

\* C23: the pump that delivers the shutdown notification leaves the registry
\* without handle, the handle released, session_open and both registration
\* flags false and canon_is_connected false if the callback's try_lock
\* succeeds, and the registry and the handle as they were if it fails (the
\* lock is taken, by another thread or by the pumping thread itself); a
\* command that checks the handle after the callback cleared it returns
\* 'No camera connected'.
C23_Shutdown == [][\A t \in Threads : C23_ShutdownStep(t)]_vars

\* The device has shut down, the callback has cleared the registry, and a
\* canon_take_picture issued afterwards has just been refused.
C23_Witness ==
  /\ cam.down
  /\ mgr.exists
  /\ ~mgr.state_event_handler_registered
  /\ cam.held = {}
  /\ Returned(TakePicture, Fail("No camera connected"))

StartMovieRecord == "canon_start_movie_record"

\* A canon_start_movie_record called in a state where `pre` holds and
\* IS_MOVIE_RECORDING is true gets to its check of the flag, and the check
\* returns Ok(true); neither step makes an SDK call or changes the registry,
\* MOVIE_DATA, the device or the flag.
C24_Step(t, pre) ==
  /\ (pc[t] = "sr_init" /\ isRecording /\ pre /\ Steps(t)) =>
        /\ pc'[t] = "sr_rec"
        /\ UNCHANGED <<mgr, md, cam, isRecording>>
  /\ (pc[t] = "sr_rec" /\ isRecording /\ Steps(t)) =>
        /\ pc'[t] = "idle"
        /\ res' = [op |-> StartMovieRecord, val |-> OkVal("true")]
        /\ ~loc[t].native
        /\ UNCHANGED <<mgr, md, cam, isRecording>>

\* C24: called with the SDK initialized while IS_MOVIE_RECORDING is true,
\* canon_start_movie_record returns Ok(true) without an SDK call, without
\* registering the callback and without resetting MOVIE_DATA.
C24_AlreadyRecording == [][\A t \in Threads : C24_Step(t, sdkInit)]_vars

\* The second start has just returned Ok(true) while the recording started by
\* the first is being stopped: the movie record the stop has filled is as it
\* was.
C24_Witness ==
  /\ Returned(StartMovieRecord, OkVal("true"))
  /\ isRecording
  /\ md.download_complete
  /\ hist.calls = Len(RecordOrder) + 2

\* C24 as stated: whatever the state of the SDK.
C24_NoOpSuccess == [][\A t \in Threads : C24_Step(t, TRUE)]_vars

Initialize == "canon_initialize"

\* C25: a canon_initialize that finds SDK_INITIALIZED true returns Ok(true)
\* without calling EdsInitializeSDK, and EdsInitializeSDK succeeds at most
\* once between two terminations of the SDK.
C25_InitOnce ==
  /\ [](cam.inits <= 1)
  /\ [][\A t \in Threads :
          (pc[t] = "in_check" /\ sdkInit /\ Steps(t)) =>
             /\ res' = [op |-> Initialize, val |-> OkVal("true")]
             /\ cam' = cam]_vars

\* The steps in which canon_take_picture, canon_send_shutter and
\* canon_start_movie_record issue their command.
IssuesCommand == {"tp_send", "ss_send", "sr_begin"}

\* C26: while the registry's flag says so, object_event_handler is set on the
\* handle in the registry, also after a later canon_connect has replaced the
\* handle; it is never set on a handle it is set on already; and it is set
\* on the handle canon_take_picture, canon_send_shutter and
\* canon_start_movie_record issue their command on.
C26_RegisteredOnce ==
  /\ []((mgr.event_handler_registered /\ mgr.camera_ref # NoRef)
          => mgr.camera_ref \in cam.handlers)
  /\ [][\A t \in Threads :
          /\ (Steps(t) /\ cam'.handlers # cam.handlers /\ cam'.handlers # {})
                => cam'.handlers \cap cam.handlers = {}
          /\ (pc[t] \in IssuesCommand /\ Steps(t))
                => loc[t].ref \in cam.handlers]_vars

\* C27: when canon_take_picture sends the take-picture command, host is the
\* last save destination written to the device.
C27_HostAtSend ==
  [][\A t \in Threads :
       (pc[t] = "tp_send" /\ Steps(t)) => cam.saveTo = "host"]_vars

C28_StartStep(t) ==
  /\ (Steps(t) /\ pc'[t] = "sr_store") =>
        /\ pc[t] = "sr_begin"
        /\ cam'.recording
        /\ UNCHANGED isRecording
  /\ (pc[t] = "sr_begin" /\ Steps(t) /\ pc'[t] # "sr_store") =>
        /\ res' = [op |-> StartMovieRecord, val |-> ErrVal("Start recording failed")]
        /\ cam'.movieSw = "off"
        /\ cam'.recording = cam.recording
        /\ UNCHANGED isRecording

\* C28: IS_MOVIE_RECORDING goes from false to true only in the store
\* canon_start_movie_record makes after Record = Begin succeeded; when
\* Record = Begin fails, MovieSelectSwOFF is sent, the error is returned and
\* the call leaves IS_MOVIE_RECORDING as it is.
C28_StartFailure ==
  [][/\ \A t \in Threads : C28_StartStep(t)
     /\ (~isRecording /\ isRecording')
           => \E t \in Threads : pc[t] = "sr_store" /\ Steps(t)]_vars

\* A start issued after the scripted one has just failed at Record = Begin
\* with the device up: the camera was switched back and the flag is false.
C28_Witness ==
  /\ Returned(StartMovieRecord, ErrVal("Start recording failed"))
  /\ ~isRecording
  /\ cam.movieSw = "off"
  /\ cam.saveTo = "camera"
  /\ ~cam.down
  /\ hist.calls > Len(RecordOrder)

StopMovieRecordFast == "canon_stop_movie_record_fast"

\* C29: IS_MOVIE_RECORDING goes from true to false only in the stores of
\* canon_stop_movie_record and canon_finalize_movie_download; no step of
\* canon_stop_movie_record_fast, canon_take_photo_during_recording or
\* canon_take_picture, the callbacks their pumps run included, changes it.
C29_RecordingKept ==
  [][/\ (isRecording /\ ~isRecording') =>
          \E t \in Threads :
             /\ Steps(t)
             /\ \/ pc[t] = "sm_store" /\ op[t] = StopMovieRecord
                \/ pc[t] = "fm_done" /\ op[t] = FinalizeMovieDownload
     /\ \A t \in Threads :
          (/\ Steps(t)
           /\ op[t] \in {StopMovieRecordFast, TakePhotoDuringRecording, TakePicture})
            => UNCHANGED isRecording]_vars

\* The fast stop has just returned: the recording has ended on the device,
\* the movie file is still to be announced and the flag is still true.
C29_Witness ==
  /\ Returned(StopMovieRecordFast, OkVal("true"))
  /\ isRecording
  /\ ~cam.recording
  /\ cam.owedMovie

C30_Step(t) ==
  /\ (pc[t] = "fm_first" /\ Steps(t)) =>
        /\ pc'[t] = IF md.download_complete THEN "fm_done" ELSE "fm_loop"
        /\ loc'[t].n = 0
        /\ UNCHANGED <<cd, mgr, cam, isRecording>>
  /\ (Steps(t) /\ pc'[t] = "fm_done") =>
        /\ pc[t] \in {"fm_first", "fm_check", "fm_loop"}
        /\ IF pc[t] = "fm_loop"
           THEN loc[t].n = MaxPumps /\ loc'[t].tmp = TimeoutErr
           ELSE md.download_complete /\ loc'[t].tmp = CheckDownload
        /\ UNCHANGED <<cd, md.download_complete, mgr, cam>>
  /\ (pc[t] = "fm_done" /\ Steps(t)) =>
        /\ ~isRecording'
        /\ pc'[t] = "fm_lock"
  /\ (pc[t] \in {"fm_lock", "fm_restore"} /\ Steps(t)) =>
        /\ pc'[t] \in {"fm_restore", "idle"}
        /\ loc'[t].n = IF pc'[t] = "idle" THEN 0 ELSE loc[t].n
  /\ (op[t] = FinalizeMovieDownload /\ Steps(t) /\ pc'[t] = "idle") =>
        /\ pc[t] \in {"fm_lock", "fm_restore"}
        /\ res'.val = loc[t].tmp
        /\ mgr.camera_ref # NoRef => cam'.saveTo = "host"

\* C30: a canon_finalize_movie_download that finds MOVIE_DATA complete goes
\* to its exit without a call of EdsGetEvent; every exit (complete at once,
\* complete after a pump, timeout) stores false in IS_MOVIE_RECORDING and
\* then writes SaveTo = Host if the registry holds a handle, and returns what
\* the exit found.
C30_FinalizeExits == [][\A t \in Threads : C30_Step(t)]_vars

\* The fetch found the movie complete: it has pumped no event, has cleared
\* the flag and is about to restore the save destination on the handle.
C30_Witness ==
  \E t \in Threads :
     /\ pc[t] = "fm_restore"
     /\ loc[t].n = 0
     /\ loc[t].tmp = OkVal("movie")
     /\ ~isRecording
     /\ mgr.camera_ref # NoRef
     /\ cam.saveTo # "host"

\* The positions of canon_take_photo_during_recording inside its wait loop.
PhotoLoop == {"pd_loop", "pd_check"}

C31_Step(t) ==
  (op[t] = TakePhotoDuringRecording /\ Steps(t)) =>
     /\ pc[t] = "pd_press" =>
           /\ loc'[t].pressed
           /\ pc'[t] \in {"pd_loop", "pd_fb_drop"}
     /\ loc[t].pressed =>
           IF pc[t] \in PhotoLoop
           THEN /\ loc'[t].pressed
                /\ pc'[t] \in PhotoLoop \cup {"pd_release"}
           ELSE /\ pc[t] \in {"pd_release", "pd_fb_drop"}
                /\ ~loc'[t].pressed
     /\ pc'[t] = "pd_release" => pc[t] \in PhotoLoop
     /\ pc[t] = "pd_release" => pc'[t] = "pd_stop" /\ cam' = cam
     /\ pc[t] = "pd_stop" => pc'[t] = "pd_leave" /\ cam' = RecordEnd
     /\ pc[t] = "pd_leave" =>
           /\ pc'[t] = "pd_drain"
           /\ cam' = [cam EXCEPT !.movieSw = "off"]

\* C31: in canon_take_photo_during_recording while recording, a call that
\* has sent the shutter press sends the release before it does anything but
\* pump (press failed: the release is its next step; press succeeded: it
\* stays in the wait loop until the photo is there or the loop times out,
\* then sends the release), and after the wait loop the device calls are
\* release, Record = End, MovieSelectSwOFF in this order.
C31_PressReleased == [][\A t \in Threads : C31_Step(t)]_vars

\* The press succeeded, the loop has ended with or without a photo, and the
\* call has sent the release and the end of the recording.
C31_Witness ==
  \E t \in Threads :
     /\ pc[t] = "pd_leave"
     /\ op[t] = TakePhotoDuringRecording
     /\ ~loc[t].pressed
     /\ ~cam.recording
     /\ cam.movieSw = "on"

\* The positions whose step writes kEdsPropID_SaveTo = kEdsSaveTo_Host.
SaveToHostWrites == {"tp_saveto", "sf_saveto", "sm_restore", "fm_restore"}

\* C32: a canon_take_photo_during_recording whose shutter press succeeded
\* issues no write of SaveTo = Host from then until it returns, whether the
\* photo bytes arrived or not.
C32_NoHostWrite ==
  [][\A t \in Threads :
       (op[t] = TakePhotoDuringRecording /\ loc[t].shot /\ Steps(t))
          => pc[t] \notin SaveToHostWrites]_vars

\* The notification the callback has just returned from is one it has no
\* branch for: neither a transfer request nor an item created while
\* IS_MOVIE_RECORDING is true.
Unrelated(kind) ==
  /\ kind # "DirItemRequestTransfer"
  /\ ~(kind = "DirItemCreated" /\ isRecording)

\* C33: object_event_handler called with a notification that is neither a
\* transfer request nor an item created while IS_MOVIE_RECORDING is true
\* (an item created while it is false included) returns EDS_ERR_OK and
\* leaves CAPTURE_DATA and MOVIE_DATA as they are.
C33_Ignored ==
  [][(res' # NoReturn /\ Unrelated(res'.op)) =>
        /\ cd' = cd
        /\ md' = md
        /\ res'.val = OkVal("EDS_ERR_OK")]_vars

\* An item was created while no recording was on and a MovieRecord waited
\* for its file: the callback has returned and the record still waits.
C33_Witness ==
  /\ res.op = "DirItemCreated"
  /\ ~isRecording
  /\ md.exists
  /\ ~md.download_complete
  /\ cd.exists

\* C34: after object_event_handler has handled a transfer request with an
\* existing CaptureRecord, that record is complete and holds image bytes or
\* an error; after it has handled an item created while IS_MOVIE_RECORDING
\* is true, the MovieRecord is complete and holds a path or an error.  A
\* download that fails leaves error and complete = true, never an
\* incomplete record.
C34_Completes ==
  [][res' # NoReturn =>
       /\ (res'.op = "DirItemRequestTransfer" /\ cd.exists) =>
             /\ cd'.capture_complete
             /\ cd'.image_data # NoImage \/ cd'.capture_error # NoError
       /\ (res'.op = "DirItemCreated" /\ isRecording) =>
             /\ md'.download_complete
             /\ md'.movie_path # NoPath \/ md'.download_error # NoError]_vars

\* A download has failed for a record that had been reset: the record is
\* complete with the error and without bytes.
C34_Witness ==
  /\ res.op = "DirItemRequestTransfer"
  /\ cd.exists
  /\ cd.capture_complete
  /\ cd.capture_error # NoError
  /\ cd.image_data = NoImage

ProcessEvents == "canon_process_events"
GetLiveViewFrame == "canon_get_live_view_frame"

\* CAMERA_MANAGER is locked by a thread other than t.
LockedByOther(t) == mgrLock \notin {NoThread, t}

C35_Step(t) ==
  (LockedByOther(t) /\ Steps(t)) =>
     /\ pc[t] = "pe_pump" =>
           /\ pc'[t] = "pe_ret"
           /\ ~loc'[t].native
           /\ UNCHANGED <<gvars>>
     /\ (op[t] = ProcessEvents /\ pc[t] = "pe_ret") =>
           /\ res' = [op |-> ProcessEvents, val |-> OkVal("true")]
           /\ UNCHANGED <<gvars>>
     /\ pc[t] = "lv_try" =>
           /\ res' = [op |-> GetLiveViewFrame, val |-> OkVal("none")]
           /\ ~loc[t].native
           /\ UNCHANGED <<gvars>>

\* C35: while CAMERA_MANAGER is locked by another thread,
\* canon_process_events and canon_get_live_view_frame at their try_lock can
\* take their step (they do not wait), the step makes no SDK call and
\* changes nothing, and the command returns: canon_get_live_view_frame
\* Ok(None) at once, canon_process_events true as its next step.
C35_NoWait ==
  /\ [](\A t \in Threads :
         (pc[t] \in {"pe_pump", "lv_try"} /\ LockedByOther(t))
            => ENABLED (PePump(t) \/ LvTry(t)))
  /\ [][\A t \in Threads : C35_Step(t)]_vars

\* A frame grab holds the lock inside its SDK calls and the other thread's
\* event pump has just skipped its cycle.
C35_Witness ==
  \E t \in Threads :
     /\ pc[t] = "pe_ret"
     /\ LockedByOther(t)
     /\ ~loc[t].native
     /\ \E u \in Threads : pc[u] = "lv_frame" /\ mgrLock = u

OpenSession == "canon_open_session"

C36_Step ==
  /\ (~mgr.session_open /\ mgr'.session_open) =>
        /\ mgr.camera_ref # NoRef
        /\ mgr'.camera_ref = mgr.camera_ref
        /\ res' = [op |-> OpenSession, val |-> OkVal("true")]
  /\ res' = [op |-> OpenSession, val |-> OkVal("true")] =>
        /\ mgr.camera_ref # NoRef
        /\ mgr'.session_open
  /\ (mgr.camera_ref # NoRef /\ mgr'.camera_ref # mgr.camera_ref) =>
        ~mgr'.session_open

\* C36: in every reachable state of the registry session_open implies that
\* a handle is present; session_open becomes true only in a
\* canon_open_session that returns Ok(true) from a state with a handle; and
\* every step that removes or replaces the handle (canon_close_session,
\* canon_connect, the shutdown notification) leaves session_open false.
C36_SessionHandle ==
  /\ [](mgr.session_open => mgr.camera_ref # NoRef)
  /\ [][C36_Step]_vars

\* The shutdown notification arrived in the pump of a canon_take_picture and
\* removed the handle of the open session together with session_open.
C36_Witness ==
  \E t \in Threads :
     /\ pc[t] = "tp_check"
     /\ hist.calls = Len(BootOrder) + 1
     /\ cam.down
     /\ cam.held = {}
     /\ mgr.camera_ref = NoRef
     /\ ~mgr.session_open

\* C37: every command sent and every property set by a flow that copied the
\* handle out of the registry (canon_take_picture, canon_send_shutter, the
\* recording commands, canon_take_photo_during_recording) is sent on a handle
\* that EdsRelease has not been called on.
C37_NoUseAfterRelease ==
  [][\A t \in Threads :
       (SendsToDevice(t) /\ pc[t] # "fm_restore" /\ Steps(t))
          => loc[t].ref \in cam.held]_vars

\* C38: Record = Begin is issued at most once per recording cycle: when a
\* canon_start_movie_record issues it, IS_MOVIE_RECORDING is false and no
\* other call has issued it and not yet set the flag.
C38_SingleFlight ==
  [][\A t \in Threads :
       (pc[t] = "sr_begin" /\ Steps(t)) =>
          /\ ~isRecording
          /\ \A u \in Threads \ {t} : pc[u] # "sr_store"]_vars

\* C39: once the callback has stored image bytes for the capture of a
\* canon_take_picture that is still in its pump loop, the record keeps them
\* until that call reads them (no other command consumes or clears the
\* record), so the call finds capture_complete at its next check.
C39_BytesKept ==
  [][\A t \in Threads :
       (/\ op[t] = TakePicture
        /\ pc[t] \in {"tp_loop", "tp_check"}
        /\ loc[t].sawPop
        /\ cd.capture_complete
        /\ cd.image_data # NoImage)
       => /\ cd'.capture_complete
          /\ cd'.image_data # NoImage]_vars

\* A step in which a task enters execute_os_shutdown, or in which the OS
\* shutdown command is run.
OsShutdownStarts ==
  \/ \E i \in Tasks : sm.tasks[i] # "os_sleep" /\ sm'.tasks[i] = "os_sleep"
  \/ ~sm.executed /\ sm'.executed

\* C40: the OS shutdown is neither started nor run while is_in_transaction
\* is true, under any interleaving of the commands with the tasks.
C40_NoShutdownInTransaction ==
  [][OsShutdownStarts => ~sm.is_in_transaction]_vars

====
